---- MODULE Spec2Model ----
(***************************************************************************)
(* Model of the authorization scoping engine (mcp_server/rbac.py,          *)
(* mcp_server/auth.py), the query tools built on it                        *)
(* (mcp_server/tools/sql.py, mcp_server/tools/attendance.py) and the       *)
(* attendance day classifier of easydo-hrms-mcp.                           *)
(*                                                                         *)
(* A query text is modelled as the sequence of its words: every word is a  *)
(* record [t, a, c, n]; white space only separates words (the rstrip and   *)
(* the literal blanks of apply_company_filter act on separators only).     *)
(***************************************************************************)
EXTENDS Integers, Sequences, FiniteSets, TLC

VARIABLES
    pc,                 \* position of the running tool call
    SUPER_ADMIN_PHONE,  \* auth.py: SUPER_ADMIN_PHONE (process configuration)
    ctx,                \* the UserContext of the call: [phone, companies]
    base_query,         \* argument of apply_company_filter / run_sql_query
    table_alias,        \* argument of apply_company_filter
    company_filter,     \* apply_company_filter: the local filter_clause
    query_to_run,       \* the text handed to the row source
    rows,               \* what the row source answered: [ok, sel]
    table_access,       \* sql.py: the content of table_access.json
    result,             \* what the tool returns to its caller
    args,               \* attendance.py: the arguments of the tool call
    company_employee,   \* the rows of the company_employee table
    emp_id,             \* attendance.py: the employee the facts are fetched for
    att,                \* get_attendance: target month, today and the fetched facts
    loc,                \* get_attendance: the locals built before and in the day loop
    summary,            \* get_attendance: the summary counters
    days,               \* get_attendance: the day_info entries appended so far
    report,             \* get_attendance_report: the employee's entry of the report
    slip_row,           \* get_salary_slip: the fetched salary slip row
    slip,               \* get_salary_slip: the attendance_deductions of the result
    prob,               \* employee.py: the arguments of the probation calculation
    probation,          \* employee.py: its result
    creds,              \* auth.py: the stored credentials or session
    store,              \* auth.py: the membership rows the row source holds
    heap,               \* sessions.py: the Session objects created so far, by id
    _sessions,          \* SessionManager._sessions: the ids the map holds
    _lock,              \* SessionManager._lock: the thread holding it, 0 when free
    now,                \* time.time()
    threads,            \* the position and locals of every thread
    data,               \* rbac.py: the dicts handed to filter_sensitive_fields
    filtered            \* rbac.py: what filter_sensitive_fields returned for them

attVars == <<att, loc, summary, days, report>>

slipVars == <<slip_row, slip>>

probVars == <<prob, probation>>

authVars == <<creds, store>>

sessVars == <<heap, _sessions, _lock, now, threads>>

sensVars == <<data, filtered>>

vars == <<pc, SUPER_ADMIN_PHONE, ctx, base_query, table_alias, company_filter,
          query_to_run, rows, table_access, result, args, company_employee, emp_id,
          att, loc, summary, days, report, slip_row, slip, prob, probation, creds, store,
          heap, _sessions, _lock, now, threads, data, filtered>>

-----------------------------------------------------------------------------
(* Bounds                                                                  *)

MaxCompanies == 2       \* memberships per principal
MaxCompanyId == 2       \* company ids 1..MaxCompanyId
MaxBranchId == 2        \* branch ids 1..MaxBranchId
MaxEmployeeId == 4      \* employee record ids 1..MaxEmployeeId

-----------------------------------------------------------------------------
(* Program constants                                                       *)

ROLE_COMPANY_ADMIN == 1
ROLE_BRANCH_MANAGER == 2
ROLE_EMPLOYEE == 3
PhoneDigits == 10

NoValue == "None"
Error == "error"

-----------------------------------------------------------------------------
(* Words of a query text                                                   *)

Tok(s) == [t |-> s, a |-> "", c |-> "", n |-> 0]
\* "<a>.<c> = <n>" (or "<c> = <n>" when a = ""): one comparison
Cmp(a, c, n) == [t |-> "cmp", a |-> a, c |-> c, n |-> n]
\* "FROM <c> <a>": the row source of a SELECT and its alias
From(c, a) == [t |-> "FROM", a |-> a, c |-> c, n |-> 0]
\* "JOIN <c> <a> ON ...": a joined table and its alias
Join(c, a) == [t |-> "JOIN", a |-> a, c |-> c, n |-> 0]

\* re.IGNORECASE: the upper-case form of a word
Upper(s) ==
    CASE s = "group by" -> "GROUP BY"
      [] s = "order by" -> "ORDER BY"
      [] s = "limit" -> "LIMIT"
      [] s = "having" -> "HAVING"
      [] s = "select" -> "SELECT"
      [] OTHER -> s

insert_keywords == <<"GROUP BY", "ORDER BY", "LIMIT", "HAVING">>

SetMin(S) == CHOOSE x \in S : \A y \in S : x <= y

\* re.search(pattern, text, re.IGNORECASE): start of the first match, 0 = None
re_search(pattern, text) ==
    LET hits == {i \in 1..Len(text) : Upper(text[i].t) = pattern}
    IN  IF hits = {} THEN 0 ELSE SetMin(hits)

-----------------------------------------------------------------------------
(* auth.py                                                                 *)

RECURSIVE RemoveChars(_, _)
RemoveChars(s, drop) ==
    IF s = <<>> THEN <<>>
    ELSE IF Head(s) \in drop THEN RemoveChars(Tail(s), drop)
         ELSE <<Head(s)>> \o RemoveChars(Tail(s), drop)

RECURSIVE LStrip(_)
LStrip(s) == IF s # <<>> /\ Head(s) = " " THEN LStrip(Tail(s)) ELSE s

RECURSIVE RStrip(_)
RStrip(s) == IF s # <<>> /\ s[Len(s)] = " " THEN RStrip(SubSeq(s, 1, Len(s) - 1)) ELSE s

normalize_phone(phone) ==
    LET p == RemoveChars(RStrip(LStrip(phone)), {" ", "-", "+"})
    IN  IF Len(p) >= PhoneDigits THEN SubSeq(p, Len(p) - PhoneDigits + 1, Len(p)) ELSE p

is_super_admin(c) ==
    IF c.phone = <<>> \/ SUPER_ADMIN_PHONE = <<>> THEN FALSE
    ELSE normalize_phone(c.phone) = normalize_phone(SUPER_ADMIN_PHONE)

CompanyContext(e, c, b, r) ==
    [company_employee_id |-> e, company_id |-> c, company_branch_id |-> b, role_id |-> r,
     is_primary |-> FALSE]

\* get_user_context, lines 175-192: the rows become the memberships, the
\* first row is marked primary
UserContext(phone, memberRows) ==
    [phone |-> phone,
     companies |-> [i \in 1..Len(memberRows) |-> [memberRows[i] EXCEPT !.is_primary = (i = 1)]]]

\* primary_company, lines 57-63, as a position in companies; 0 stands for None
primary_index(c) ==
    IF \E i \in 1..Len(c.companies) : c.companies[i].is_primary
    THEN SetMin({i \in 1..Len(c.companies) : c.companies[i].is_primary})
    ELSE IF c.companies # <<>> THEN 1 ELSE 0

primary_company(c) == c.companies[primary_index(c)]

role_id(c) == IF primary_index(c) # 0 THEN primary_company(c).role_id ELSE 3

-----------------------------------------------------------------------------
(* rbac.py                                                                 *)

\* mutant: the branch manager clause without its branch condition
_build_company_filter_NoBranch(company, prefix) ==
    IF company.role_id = ROLE_COMPANY_ADMIN
    THEN <<Cmp(prefix, "company_id", company.company_id)>>
    ELSE IF company.role_id = ROLE_BRANCH_MANAGER
    THEN <<Cmp(prefix, "company_id", company.company_id)>>
    ELSE <<Cmp(prefix, "company_employee_id", company.company_employee_id)>>

_build_company_filter(company, prefix) ==
    IF company.role_id = ROLE_COMPANY_ADMIN
    THEN <<Cmp(prefix, "company_id", company.company_id)>>
    ELSE IF company.role_id = ROLE_BRANCH_MANAGER
    THEN <<Tok("("), Cmp(prefix, "company_id", company.company_id), Tok("AND"),
           Cmp(prefix, "company_branch_id", company.company_branch_id), Tok(")")>>
    ELSE <<Cmp(prefix, "company_employee_id", company.company_employee_id)>>

\* ' OR '.join(company_filters)
RECURSIVE JoinOr(_)
JoinOr(fs) ==
    IF Len(fs) = 0 THEN <<>>
    ELSE IF Len(fs) = 1 THEN fs[1]
    ELSE fs[1] \o <<Tok("OR")>> \o JoinOr(Tail(fs))

filter_clause(companies, alias) ==
    LET company_filters == [i \in 1..Len(companies) |-> _build_company_filter(companies[i], alias)]
    IN  IF Len(company_filters) = 1 THEN company_filters[1]
        ELSE <<Tok("(")>> \o JoinOr(company_filters) \o <<Tok(")")>>

\* mutant: the filter is always appended at the end
insert_pos_AtEnd(q) == Len(q) + 1

\* the scan over insert_keywords: the earliest match start, else len(base_query)
insert_pos(q) ==
    LET starts == {re_search(insert_keywords[k], q) : k \in 1..Len(insert_keywords)} \ {0}
    IN  IF starts = {} THEN Len(q) + 1 ELSE SetMin(starts)

\* mutant: no bypass for the super admin
apply_company_filter_NoBypass(c, q, alias) ==
    IF c.companies = <<>> THEN q \o <<Tok("AND"), Tok("1=0")>>
    ELSE LET pos == insert_pos(q)
             before == SubSeq(q, 1, pos - 1)
             after == SubSeq(q, pos, Len(q))
         IN  before \o <<Tok("AND")>> \o filter_clause(c.companies, alias) \o after

apply_company_filter(c, q, alias) ==
    IF is_super_admin(c) THEN q
    ELSE IF c.companies = <<>> THEN q \o <<Tok("AND"), Tok("1=0")>>
    ELSE LET pos == insert_pos(q)
             before == SubSeq(q, 1, pos - 1)
             after == SubSeq(q, pos, Len(q))
         IN  before \o <<Tok("AND")>> \o filter_clause(c.companies, alias) \o after

-----------------------------------------------------------------------------
(* The row source: how the backing SQL store reads a query text.           *)
(* A row carries the three columns the access predicate is about and two   *)
(* boolean columns p, q that stand for the caller's own conditions.        *)

Rows ==
    [company_id : 1..MaxCompanyId, company_branch_id : 1..MaxBranchId,
     company_employee_id : 1..MaxEmployeeId, p : BOOLEAN, q : BOOLEAN]

TailKeywords == {"GROUP BY", "ORDER BY", "LIMIT", "HAVING"}
\* non-boolean columns and literals usable as a sort key, group key or limit
ScalarWords == {"y", "limits", "5"}

Depth(toks, i) ==
    Cardinality({j \in 1..(i - 1) : toks[j].t = "("})
      - Cardinality({j \in 1..(i - 1) : toks[j].t = ")"})

Balanced(toks) ==
    /\ Depth(toks, Len(toks) + 1) = 0
    /\ \A i \in 1..Len(toks) : Depth(toks, i + 1) >= 0

\* positions of the words of S outside every parenthesis
TopLevel(toks, S) ==
    {i \in 1..Len(toks) : Upper(toks[i].t) \in S /\ Depth(toks, i) = 0}

\* the answer of the store to an expression or a query: rejected (ok = FALSE)
\* or the set of rows it holds for
Rejected == [ok |-> FALSE, sel |-> {}]
Selected(S) == [ok |-> TRUE, sel |-> S]
Or3(x, y) == IF ~x.ok \/ ~y.ok THEN Rejected ELSE Selected(x.sel \cup y.sel)
And3(x, y) == IF ~x.ok \/ ~y.ok THEN Rejected ELSE Selected(x.sel \cap y.sel)

\* the qualifiers a FROM item makes visible
Qualifiers(from) == IF from.a = "" THEN {from.c} ELSE {from.a}

\* the field of a row a column reference reads: ce.id is the employee record
\* id, c.name identifies the company
Column(tok) ==
    CASE tok.a = "ce" /\ tok.c = "id" -> "company_employee_id"
      [] tok.a = "c" /\ tok.c = "name" -> "company_id"
      [] OTHER -> tok.c

Atom(tok, scope) ==
    CASE tok.t = "p" -> Selected({r \in Rows : r.p})
      [] tok.t = "q" -> Selected({r \in Rows : r.q})
      [] tok.t = "1=0" -> Selected({})
      [] tok.t = "cmp" ->
            IF tok.a # "" /\ tok.a \notin scope THEN Rejected
            ELSE Selected({r \in Rows : r[Column(tok)] = tok.n})
      [] OTHER -> Rejected

RECURSIVE EvalExpr(_, _)
RECURSIVE EvalTails(_, _, _)
RECURSIVE EvalQuery(_, _)

\* a boolean expression: OR binds weaker than AND, parentheses group,
\* IN ( <query> ) is a semi-join on the row itself
EvalExpr(toks, scope) ==
    IF toks = <<>> \/ ~Balanced(toks) THEN Rejected
    ELSE LET n == Len(toks)
             ors == TopLevel(toks, {"OR"})
             ands == TopLevel(toks, {"AND"})
             wrapped(k) == /\ n > k + 1
                           /\ toks[k].t = "("
                           /\ toks[n].t = ")"
                           /\ \A i \in (k + 1)..n : Depth(toks, i) >= 1
         IN  IF ors # {}
             THEN LET i == SetMin(ors)
                  IN  Or3(EvalExpr(SubSeq(toks, 1, i - 1), scope),
                          EvalExpr(SubSeq(toks, i + 1, n), scope))
             ELSE IF ands # {}
             THEN LET i == SetMin(ands)
                  IN  And3(EvalExpr(SubSeq(toks, 1, i - 1), scope),
                           EvalExpr(SubSeq(toks, i + 1, n), scope))
             ELSE IF n = 1 THEN Atom(toks[1], scope)
             ELSE IF wrapped(1) THEN EvalExpr(SubSeq(toks, 2, n - 1), scope)
             ELSE IF toks[1].t = "IN" /\ wrapped(2)
             THEN EvalQuery(SubSeq(toks, 3, n - 1), scope)
             ELSE Rejected

ClauseRank(kw) ==
    CASE kw = "GROUP BY" -> 1 [] kw = "HAVING" -> 2 [] kw = "ORDER BY" -> 3 [] kw = "LIMIT" -> 4

\* the clauses after the WHERE condition, in the order SQL allows them:
\* a sort or group key is a scalar or a well-typed boolean expression, a
\* limit is a number, HAVING keeps the rows its condition holds for
EvalTails(toks, scope, rank) ==
    IF toks = <<>> THEN Selected(Rows)
    ELSE LET kw == Upper(toks[1].t)
             later == TopLevel(Tail(toks), TailKeywords)
             stop == IF later = {} THEN Len(toks) ELSE SetMin(later)
             arg == SubSeq(toks, 2, stop)
             this ==
                 IF ClauseRank(kw) <= rank THEN Rejected
                 ELSE IF kw = "LIMIT"
                 THEN IF Len(arg) = 1 /\ arg[1].t = "5" THEN Selected(Rows) ELSE Rejected
                 ELSE IF kw = "HAVING" THEN EvalExpr(arg, scope)
                 ELSE IF Len(arg) = 1 /\ arg[1].t \in ScalarWords THEN Selected(Rows)
                 ELSE IF EvalExpr(arg, scope).ok THEN Selected(Rows) ELSE Rejected
         IN  IF ~this.ok THEN Rejected
             ELSE And3(this, EvalTails(SubSeq(toks, stop + 1, Len(toks)), scope, ClauseRank(kw)))

EvalQuery(toks, scope) ==
    IF Len(toks) < 2 \/ Upper(toks[1].t) # "SELECT" \/ toks[2].t # "FROM" THEN Rejected
    ELSE IF ~Balanced(toks) THEN Rejected
    ELSE LET notJoin == {i \in 3..Len(toks) : toks[i].t # "JOIN"}
             body == IF notJoin = {} THEN Len(toks) + 1 ELSE SetMin(notJoin)
             sc == scope \cup UNION {Qualifiers(toks[i]) : i \in 2..(body - 1)}
             rest == SubSeq(toks, body, Len(toks))
             tails == TopLevel(rest, TailKeywords)
             firstTail == IF tails = {} THEN Len(rest) + 1 ELSE SetMin(tails)
             wherePart == SubSeq(rest, 1, firstTail - 1)
             cond == IF wherePart = <<>> THEN Selected(Rows)
                     ELSE IF wherePart[1].t = "WHERE" THEN EvalExpr(Tail(wherePart), sc)
                     ELSE Rejected
         IN  IF ~cond.ok THEN Rejected
             ELSE And3(cond, EvalTails(SubSeq(rest, firstTail, Len(rest)), sc, 0))

\* db.fetch_all as the tools see it: the selected rows, or a failure
fetch_all(q) == EvalQuery(q, {})

-----------------------------------------------------------------------------
(* Inputs                                                                  *)

PhoneA == <<"9", "8", "7", "6", "5", "4", "3", "2", "1", "0">>
PhoneB == <<"9", "8", "7", "6", "5", "4", "3", "2", "1", "1">>
PhoneAIntl == <<"+", "9", "1", " ">> \o PhoneA

\* (configured super-admin phone, phone of the principal)
PhoneCases == {<<PhoneA, <<>>>>, <<PhoneA, PhoneB>>, <<PhoneA, PhoneAIntl>>, <<<<>>, PhoneA>>}

SeqsUpTo(S, n) == UNION {[1..k -> S] : k \in 0..n}

Roles == {ROLE_COMPANY_ADMIN, ROLE_BRANCH_MANAGER, ROLE_EMPLOYEE}

\* the company_employee table: every employee record sits in one company
\* and one branch
EmployeeCompany(e) == ((e - 1) % MaxCompanyId) + 1
EmployeeBranch(e) == (((e - 1) \div MaxCompanyId) % MaxBranchId) + 1

\* a membership row of get_user_context: an employee record and its role
Membership(e, r) == CompanyContext(e, EmployeeCompany(e), EmployeeBranch(e), r)

Memberships == {Membership(e, r) : e \in 1..MaxEmployeeId, r \in Roles}

\* the memberships used when whole queries are scoped
ScopeMemberships ==
    {Membership(1, ROLE_COMPANY_ADMIN), Membership(2, ROLE_BRANCH_MANAGER),
     Membership(3, ROLE_EMPLOYEE)}

Aliases == {"", "ce"}

QueryHead == <<Tok("SELECT"), From("company_employee", "ce")>>

WhereClauses ==
    { <<Tok("WHERE"), Tok("p")>>,
      <<Tok("WHERE"), Tok("p"), Tok("AND"), Tok("q")>>,
      <<Tok("WHERE"), Tok("p"), Tok("OR"), Tok("q")>>,
      <<Tok("WHERE"), Tok("("), Tok("p"), Tok("OR"), Tok("q"), Tok(")")>>,
      <<Tok("WHERE"), Tok("p"), Tok("AND"), Tok("IN"), Tok("("), Tok("SELECT"),
        From("company_employee", "e2"), Tok("WHERE"), Tok("q"), Tok("ORDER BY"), Tok("y"),
        Tok("LIMIT"), Tok("5"), Tok(")")>> }

TailClauses ==
    { <<>>,
      <<Tok("GROUP BY"), Tok("y")>>,
      <<Tok("ORDER BY"), Tok("y")>>,
      <<Tok("order by"), Tok("p")>>,
      <<Tok("ORDER BY"), Tok("limits")>>,
      <<Tok("limit"), Tok("5")>>,
      <<Tok("GROUP BY"), Tok("y"), Tok("ORDER BY"), Tok("y")>>,
      <<Tok("GROUP BY"), Tok("y"), Tok("HAVING"), Tok("q")>>,
      <<Tok("ORDER BY"), Tok("y"), Tok("LIMIT"), Tok("5")>> }

BaseQueries == {QueryHead \o w \o t : w \in WhereClauses, t \in TailClauses}

-----------------------------------------------------------------------------
(* The predicate of one principal (rbac.py lines 55-61) on its own         *)

InitPredicate ==
    /\ pc = "build"
    /\ \E ph \in PhoneCases : SUPER_ADMIN_PHONE = ph[1] /\ \E cs \in SeqsUpTo(Memberships, MaxCompanies) \ {<<>>} :
           ctx = UserContext(ph[2], cs)
    /\ table_alias \in Aliases
    /\ base_query = <<>>
    /\ company_filter = NoValue
    /\ query_to_run = NoValue
    /\ rows = NoValue
    /\ table_access = NoValue
    /\ result = NoValue
    /\ args = NoValue
    /\ company_employee = NoValue
    /\ emp_id = 0
    /\ report = NoValue
    /\ att = NoValue
    /\ loc = NoValue
    /\ summary = NoValue
    /\ days = NoValue
    /\ slip_row = NoValue /\ slip = NoValue
    /\ prob = NoValue /\ probation = NoValue
    /\ creds = NoValue /\ store = NoValue
    /\ heap = NoValue /\ _sessions = NoValue /\ _lock = NoValue
    /\ now = NoValue /\ threads = NoValue
    /\ data = NoValue /\ filtered = NoValue

\* lines 49-50: a super admin gets no predicate at all
BypassPredicate ==
    /\ pc = "build"
    /\ is_super_admin(ctx)
    /\ pc' = "bypassed"
    /\ UNCHANGED <<SUPER_ADMIN_PHONE, ctx, base_query, table_alias, company_filter,
                   query_to_run, rows, table_access, result, args, company_employee, emp_id, attVars, slipVars, probVars, authVars, sessVars, sensVars>>

BuildPredicate ==
    /\ pc = "build"
    /\ ~is_super_admin(ctx)
    /\ company_filter' = filter_clause(ctx.companies, table_alias)
    /\ pc' = "built"
    /\ UNCHANGED <<SUPER_ADMIN_PHONE, ctx, base_query, table_alias, query_to_run, rows,
                   table_access, result, args, company_employee, emp_id, attVars, slipVars, probVars, authVars, sessVars, sensVars>>

NextPredicate == BypassPredicate \/ BuildPredicate

SpecPredicate == InitPredicate /\ [][NextPredicate]_vars

-----------------------------------------------------------------------------
(* apply_company_filter on a whole query, then the row source              *)

InitScope ==
    /\ pc = "scope"
    /\ \E ph \in PhoneCases : SUPER_ADMIN_PHONE = ph[1] /\ \E cs \in SeqsUpTo(ScopeMemberships, MaxCompanies) :
           ctx = UserContext(ph[2], cs)
    /\ table_alias \in Aliases
    /\ base_query \in BaseQueries
    /\ company_filter = NoValue
    /\ query_to_run = NoValue
    /\ rows = NoValue
    /\ table_access = NoValue
    /\ result = NoValue
    /\ args = NoValue
    /\ company_employee = NoValue
    /\ emp_id = 0
    /\ report = NoValue
    /\ att = NoValue
    /\ loc = NoValue
    /\ summary = NoValue
    /\ days = NoValue
    /\ slip_row = NoValue /\ slip = NoValue
    /\ prob = NoValue /\ probation = NoValue
    /\ creds = NoValue /\ store = NoValue
    /\ heap = NoValue /\ _sessions = NoValue /\ _lock = NoValue
    /\ now = NoValue /\ threads = NoValue
    /\ data = NoValue /\ filtered = NoValue

ScopeQuery ==
    /\ pc = "scope"
    /\ query_to_run' = apply_company_filter(ctx, base_query, table_alias)
    /\ pc' = "fetch"
    /\ UNCHANGED <<SUPER_ADMIN_PHONE, ctx, base_query, table_alias, company_filter, rows,
                   table_access, result, args, company_employee, emp_id, attVars, slipVars, probVars, authVars, sessVars, sensVars>>

FetchAll ==
    /\ pc = "fetch"
    /\ rows' = fetch_all(query_to_run)
    /\ pc' = "done"
    /\ UNCHANGED <<SUPER_ADMIN_PHONE, ctx, base_query, table_alias, company_filter,
                   query_to_run, table_access, result, args, company_employee, emp_id, attVars, slipVars, probVars, authVars, sessVars, sensVars>>

NextScope == ScopeQuery \/ FetchAll

SpecScope == InitScope /\ [][NextScope]_vars

-----------------------------------------------------------------------------
(* tools/sql.py: run_sql_query                                             *)

employee_tables ==
    << <<"company_employee", "ce">>, <<"company_attendance", "ca">>,
       <<"company_approval", "cap">>, <<"company_employee_salary_slip", "ss">>,
       <<"company_employee_leave", "cel">>, <<"company_employee_allowance", "cea">>,
       <<"company_employee_deduction", "ced">>, <<"attendance_report", "ar">>,
       <<"company_attendance_master", "cam">>, <<"task_management", "t">>,
       <<"meeting_management", "m">>, <<"company_document", "cd">>,
       <<"company_holiday", "ch">>, <<"announcement", "a">>, <<"roster", "r">>,
       <<"company_employee_location", "loc">>,
       <<"company_employee_location_history", "loch">>,
       <<"company_employee_of_month", "eom">>, <<"attendance_daily_summary", "ads">>,
       <<"attendance_monthly_summary", "ams">>,
       <<"attendance_branch_daily_summary", "abds">>,
       <<"attendance_branch_monthly_summary", "abms">> >>

dangerous ==
    {"INSERT", "UPDATE", "DELETE", "DROP", "TRUNCATE", "ALTER", "CREATE", "GRANT", "REVOKE"}

\* str.upper() of a word, for the words the queries of the model use
QueryUpper(s) ==
    CASE s = "drop" -> "DROP"
      [] s = "with" -> "WITH"
      [] OTHER -> Upper(s)

\* the identifiers of the model of which another one is a proper part
SubstringPairs ==
    { <<"company_employee", "company_employee_id">>,
      <<"company_employee", "company_employee_leave">>,
      <<"company_employee", "company_employee_salary_slip">>,
      <<"company_employee", "company_employee_allowance">>,
      <<"company_employee", "company_employee_deduction">>,
      <<"company_employee", "company_employee_location">>,
      <<"company_employee", "company_employee_location_history">>,
      <<"company_employee", "company_employee_of_month">>,
      <<"company_employee_location", "company_employee_location_history">>,
      <<"company_attendance", "company_attendance_master">> }

IsSubstring(sub, s) == sub = s \/ <<sub, s>> \in SubstringPairs

\* the identifiers written in one word of the text
WordTexts(tok) ==
    IF tok.t \in {"FROM", "JOIN"} THEN {tok.c, tok.a}
    ELSE IF tok.t = "cmp" THEN {tok.a, tok.c}
    ELSE {tok.t}

\* table.lower() in query.lower()
TextContains(q, name) ==
    \E i \in 1..Len(q) : \E w \in WordTexts(q[i]) : IsSubstring(name, w)

\* re.search(rf'\s{name}\s|\s{name}\.', query): the name as a word between
\* white space, or as the qualifier of a column written after white space;
\* the text ends with its last word
WordFound(q, name) ==
    \E i \in 1..Len(q) :
        \/ q[i].t \in {"FROM", "JOIN"} /\ q[i].c = name /\ (q[i].a # "" \/ i < Len(q))
        \/ q[i].t \in {"FROM", "JOIN"} /\ q[i].a = name /\ i < Len(q)
        \/ q[i].t = "cmp" /\ q[i].a = name
        \/ q[i].t = name /\ 1 < i /\ i < Len(q)

_extract_tables_from_query(q) ==
    {q[i].c : i \in {j \in 1..Len(q) : q[j].t \in {"FROM", "JOIN"}}}
        \ {"select", "where", "and", "or", "not", "null", "true", "false", "as", "on", "in"}

\* NoValue: no restriction
_get_allowed_tables(c) ==
    IF is_super_admin(c) THEN NoValue
    ELSE IF role_id(c) \in {1, 2} THEN table_access.level_1_2
    ELSE table_access.level_3

\* lines 162-189: the reason the query is refused, NoValue when it is accepted
SqlRefusal(c, q) ==
    IF q = <<>> THEN "Query cannot be empty"
    ELSE IF QueryUpper(q[1].t) \notin {"SELECT", "WITH"} THEN "Only SELECT queries are allowed"
    ELSE IF \E i \in 1..Len(q) : QueryUpper(q[i].t) \in dangerous
    THEN "Query contains forbidden keyword"
    ELSE IF /\ ~is_super_admin(c)
            /\ _extract_tables_from_query(q) \ _get_allowed_tables(c) # {}
    THEN "Access denied to table(s)"
    ELSE NoValue

\* lines 221-234: the first entry of employee_tables whose table name occurs in
\* the text and whose alias or name is found as a word decides the filter
SqlScoped(c, q) ==
    LET hits == {k \in 1..Len(employee_tables) :
                    /\ TextContains(q, employee_tables[k][1])
                    /\ \/ WordFound(q, employee_tables[k][2])
                       \/ WordFound(q, employee_tables[k][1])}
    IN  IF hits = {} THEN q
        ELSE LET k == SetMin(hits)
             IN  IF WordFound(q, employee_tables[k][2])
                 THEN apply_company_filter(c, q, employee_tables[k][2])
                 ELSE apply_company_filter(c, q, employee_tables[k][1])

SqlTail == <<Tok("WHERE"), Tok("p")>>

SqlQueries ==
    { <<>>,
      <<Tok("SELECT"), From("company_employee", "ce")>> \o SqlTail,
      <<Tok("select"), From("company_employee", "ce")>> \o SqlTail \o <<Tok("ORDER BY"), Tok("y")>>,
      <<Tok("SELECT"), From("company_employee", "")>> \o SqlTail,
      <<Tok("SELECT"), From("company_employee", "")>>,
      <<Tok("SELECT"), From("company_employee", "x")>> \o SqlTail,
      <<Tok("SELECT"), From("company_attendance", "ca")>> \o SqlTail,
      <<Tok("SELECT"), From("company_attendance", "ca"), Tok("WHERE"),
        Cmp("ca", "company_employee_id", 1)>>,
      <<Tok("SELECT"), From("company_employee_leave", "cel")>> \o SqlTail,
      <<Tok("SELECT"), From("company_branch", "cb")>> \o SqlTail,
      <<Tok("with"), From("company_employee", "ce")>> \o SqlTail,
      <<Tok("DELETE"), From("company_employee", "ce")>> \o SqlTail,
      <<Tok("SELECT"), From("company_employee", "ce"), Tok("WHERE"), Tok("drop")>> }

TableAccessConfigs ==
    { [level_1_2 |-> {}, level_3 |-> {}],
      [level_1_2 |-> {"company_employee", "company_attendance", "company_employee_leave",
                      "company_branch"},
       level_3 |-> {"company_attendance", "company_employee_leave"}],
      [level_1_2 |-> {"company_employee", "company_attendance"},
       level_3 |-> {"company_employee"}] }

InitSql ==
    /\ pc = "sql"
    /\ \E ph \in PhoneCases : SUPER_ADMIN_PHONE = ph[1] /\ \E cs \in SeqsUpTo(ScopeMemberships, MaxCompanies) :
           ctx = UserContext(ph[2], cs)
    /\ table_alias = NoValue
    /\ base_query \in SqlQueries
    /\ company_filter = NoValue
    /\ query_to_run = NoValue
    /\ rows = NoValue
    /\ table_access \in TableAccessConfigs
    /\ result = NoValue
    /\ args = NoValue
    /\ company_employee = NoValue
    /\ emp_id = 0
    /\ report = NoValue
    /\ att = NoValue
    /\ loc = NoValue
    /\ summary = NoValue
    /\ days = NoValue
    /\ slip_row = NoValue /\ slip = NoValue
    /\ prob = NoValue /\ probation = NoValue
    /\ creds = NoValue /\ store = NoValue
    /\ heap = NoValue /\ _sessions = NoValue /\ _lock = NoValue
    /\ now = NoValue /\ threads = NoValue
    /\ data = NoValue /\ filtered = NoValue

RunSqlQueryRefused ==
    /\ pc = "sql"
    /\ SqlRefusal(ctx, base_query) # NoValue
    /\ result' = SqlRefusal(ctx, base_query)
    /\ pc' = "done"
    /\ UNCHANGED <<SUPER_ADMIN_PHONE, ctx, base_query, table_alias, company_filter,
                   query_to_run, rows, table_access, args, company_employee, emp_id, attVars, slipVars, probVars, authVars, sessVars, sensVars>>

RunSqlQueryExecuted ==
    /\ pc = "sql"
    /\ SqlRefusal(ctx, base_query) = NoValue
    /\ query_to_run' = SqlScoped(ctx, base_query)
    /\ rows' = fetch_all(query_to_run')
    /\ result' = IF rows'.ok THEN "success" ELSE "Query failed"
    /\ pc' = "done"
    /\ UNCHANGED <<SUPER_ADMIN_PHONE, ctx, base_query, table_alias, company_filter,
                   table_access, args, company_employee, emp_id, attVars, slipVars, probVars, authVars, sessVars, sensVars>>

NextSql == RunSqlQueryRefused \/ RunSqlQueryExecuted

SpecSql == InitSql /\ [][NextSql]_vars

-----------------------------------------------------------------------------
(* tools/attendance.py: _resolve_employee and the tools that start with it  *)

\* the company_employee table read as rows of the store: p = the record is
\* not deleted, q = the employee name matches the name pattern of the call
TableRows(table) ==
    {[company_employee_id |-> e, company_id |-> EmployeeCompany(e),
      company_branch_id |-> EmployeeBranch(e), p |-> table[e].active, q |-> table[e].named] :
        e \in DOMAIN table}

\* fetch_all against the company_employee table
fetch_employees(q, table) ==
    LET res == EvalQuery(q, {})
    IN  IF res.ok THEN Selected(res.sel \cap TableRows(table)) ELSE Rejected

ResolveHead ==
    <<Tok("SELECT"), From("company_employee", "ce"), Join("company", "c"),
      Join("company_branch", "cb"), Tok("WHERE")>>

\* lines 117-124: WHERE ce.id = $1 AND ce.is_deleted = '0'
ResolveByIdQuery(id) == ResolveHead \o <<Cmp("ce", "id", id), Tok("AND"), Tok("p")>>

\* lines 134-145: WHERE LOWER(ce.employee_name) LIKE LOWER($1) AND
\* ce.is_deleted = '0' [AND LOWER(c.name) LIKE LOWER($2)]
ResolveByNameQuery(company) ==
    ResolveHead \o <<Tok("q"), Tok("AND"), Tok("p")>>
        \o (IF company # 0 THEN <<Tok("AND"), Cmp("c", "name", company)>> ELSE <<>>)

\* the result of _resolve_employee; emp_id 0 stands for None
Resolved(id) == [emp_id |-> id, error |-> NoValue]
NotResolved(msg) == [emp_id |-> 0, error |-> msg]

\* mutant: the lookups run without the access filter
_resolve_employee_Unscoped(c, a, table) ==
    IF a.employee_id # 0
    THEN LET found == fetch_employees(ResolveByIdQuery(a.employee_id), table)
         IN  IF ~found.ok THEN NotResolved("exception")
             ELSE IF found.sel = {} THEN NotResolved("not found or not accessible")
             ELSE Resolved((CHOOSE r \in found.sel : TRUE).company_employee_id)
    ELSE IF a.employee_name
    THEN LET found == fetch_employees(ResolveByNameQuery(a.company_name), table)
         IN  IF ~found.ok THEN NotResolved("exception")
             ELSE IF found.sel = {} THEN NotResolved("not found")
             ELSE IF Cardinality(found.sel) > 1 THEN NotResolved("Multiple employees found")
             ELSE Resolved((CHOOSE r \in found.sel : TRUE).company_employee_id)
    ELSE IF primary_index(c) = 0 THEN NotResolved("No company association found.")
    ELSE Resolved(primary_company(c).company_employee_id)

\* priority: employee_id > employee_name > self; a failing query raises
_resolve_employee(c, a, table) ==
    IF a.employee_id # 0
    THEN LET query == apply_company_filter(c, ResolveByIdQuery(a.employee_id), "ce")
             found == fetch_employees(query, table)
         IN  IF ~found.ok THEN NotResolved("exception")
             ELSE IF found.sel = {} THEN NotResolved("not found or not accessible")
             ELSE Resolved((CHOOSE r \in found.sel : TRUE).company_employee_id)
    ELSE IF a.employee_name
    THEN LET query == apply_company_filter(c, ResolveByNameQuery(a.company_name), "ce")
             found == fetch_employees(query, table)
         IN  IF ~found.ok THEN NotResolved("exception")
             ELSE IF found.sel = {} THEN NotResolved("not found")
             ELSE IF Cardinality(found.sel) > 1 THEN NotResolved("Multiple employees found")
             ELSE Resolved((CHOOSE r \in found.sel : TRUE).company_employee_id)
    ELSE IF primary_index(c) = 0 THEN NotResolved("No company association found.")
    ELSE Resolved(primary_company(c).company_employee_id)

\* (configured super-admin phone, phone of the principal)
ResolvePhoneCases == {<<PhoneA, PhoneB>>, <<PhoneA, PhoneAIntl>>}

EmployeeTables ==
    {[e \in 1..MaxEmployeeId |-> [active |-> e \notin gone, named |-> e \in named]] :
        gone \in {{}, {MaxEmployeeId}},
        named \in {S \in SUBSET (1..MaxEmployeeId) : Cardinality(S) <= 2}}

\* employee_id 0: not given; employee_name: whether a name pattern is given;
\* company_name: 0 = not given, else the company the pattern matches
ResolveArgs ==
    [tool : {"get_attendance", "get_punch_history"}, employee_id : 0..MaxEmployeeId,
     employee_name : BOOLEAN, company_name : 0..1]

InitResolve ==
    /\ pc = "call"
    /\ \E ph \in ResolvePhoneCases : SUPER_ADMIN_PHONE = ph[1] /\ \E cs \in SeqsUpTo(ScopeMemberships, MaxCompanies) :
           ctx = UserContext(ph[2], cs)
    /\ args \in ResolveArgs
    /\ company_employee \in EmployeeTables
    \* without a name pattern no row is marked as matching it
    /\ args.employee_name \/ \A e \in DOMAIN company_employee : ~company_employee[e].named
    /\ emp_id = 0
    /\ result = NoValue
    /\ report = NoValue
    /\ att = NoValue
    /\ loc = NoValue
    /\ summary = NoValue
    /\ days = NoValue
    /\ slip_row = NoValue /\ slip = NoValue
    /\ prob = NoValue /\ probation = NoValue
    /\ creds = NoValue /\ store = NoValue
    /\ table_alias = NoValue
    /\ base_query = NoValue
    /\ company_filter = NoValue
    /\ query_to_run = NoValue
    /\ rows = NoValue
    /\ table_access = NoValue
    /\ heap = NoValue /\ _sessions = NoValue /\ _lock = NoValue
    /\ now = NoValue /\ threads = NoValue
    /\ data = NoValue /\ filtered = NoValue

\* get_attendance lines 359-387 (a valid month): resolve, then fetch the
\* configuration, holidays, punches and leaves of emp_id
GetAttendance ==
    /\ pc = "call"
    /\ args.tool = "get_attendance"
    /\ LET res == _resolve_employee(ctx, args, company_employee)
       IN  /\ emp_id' = res.emp_id
           /\ result' = IF res.error # NoValue THEN res.error ELSE "attendance"
    /\ pc' = "done"
    /\ UNCHANGED <<SUPER_ADMIN_PHONE, ctx, base_query, table_alias, company_filter,
                   query_to_run, rows, table_access, args, company_employee, attVars, slipVars, probVars, authVars, sessVars, sensVars>>

\* get_punch_history lines 257-278: resolve, then fetch the punches of emp_id
GetPunchHistory ==
    /\ pc = "call"
    /\ args.tool = "get_punch_history"
    /\ LET res == _resolve_employee(ctx, args, company_employee)
       IN  /\ emp_id' = res.emp_id
           /\ result' = IF res.error # NoValue THEN res.error ELSE "punches"
    /\ pc' = "done"
    /\ UNCHANGED <<SUPER_ADMIN_PHONE, ctx, base_query, table_alias, company_filter,
                   query_to_run, rows, table_access, args, company_employee, attVars, slipVars, probVars, authVars, sessVars, sensVars>>

NextResolve == GetAttendance \/ GetPunchHistory

SpecResolve == InitResolve /\ [][NextResolve]_vars

-----------------------------------------------------------------------------
(* tools/attendance.py: calendar and the conversions of fetched values     *)

\* a date is <<year, month, day>>; a fetched date value carries a fourth
\* component, the time part that the conversions drop; <<>> is None
NoDate == <<>>

DateLT(a, b) ==
    \/ a[1] < b[1]
    \/ a[1] = b[1] /\ a[2] < b[2]
    \/ a[1] = b[1] /\ a[2] = b[2] /\ a[3] < b[3]

DateLE(a, b) == a = b \/ DateLT(a, b)

isleap(y) == y % 4 = 0 /\ (y % 100 # 0 \/ y % 400 = 0)

\* calendar.monthrange(year, month)[1]
monthrange(y, m) ==
    IF m = 2 THEN (IF isleap(y) THEN 29 ELSE 28)
    ELSE IF m \in {4, 6, 9, 11} THEN 30 ELSE 31

RECURSIVE days_before_month(_, _)
days_before_month(y, m) ==
    IF m = 1 THEN 0 ELSE days_before_month(y, m - 1) + monthrange(y, m - 1)

toordinal(d) ==
    LET y == d[1] - 1
    IN  y * 365 + (y \div 4) - (y \div 100) + (y \div 400)
          + days_before_month(d[1], d[2]) + d[3]

\* calendar.weekday(year, month, day): Monday is 0
weekday(y, m, d) == (toordinal(<<y, m, d>>) + 6) % 7

\* current + timedelta(days=1)
next_day(d) ==
    IF d[3] < monthrange(d[1], d[2]) THEN <<d[1], d[2], d[3] + 1>>
    ELSE IF d[2] < 12 THEN <<d[1], d[2] + 1, 1>>
    ELSE <<d[1] + 1, 1, 1>>

\* a fetched date is text: a month or day outside the calendar is text of
\* the right shape that names no date ("2026-13-45"), and a day of
\* NotANumber is a day part that is not a number ("2026-11-xx")
NotANumber == 0 - 1

\* the exception a conversion raises
ValueError == <<NotANumber>>

\* datetime.strptime(text.split('T')[0], "%Y-%m-%d")
strptime(text) ==
    IF /\ text[2] \in 1..12
       /\ text[3] \in 1..monthrange(text[1], text[2])
    THEN <<text[1], text[2], text[3]>>
    ELSE ValueError

_parse_date(date_raw) ==
    IF date_raw = NoDate THEN NoDate ELSE strptime(date_raw)

\* 0 stands for None; int() raises on a day part that is not a number
_extract_day_from_date(date_raw) ==
    IF date_raw = NoDate THEN 0 ELSE date_raw[3]

DAY_ABBR_MAP ==
    [d \in {"mon", "tue", "wed", "thu", "fri", "sat", "sun"} |->
        CASE d = "mon" -> 0 [] d = "tue" -> 1 [] d = "wed" -> 2 [] d = "thu" -> 3
          [] d = "fri" -> 4 [] d = "sat" -> 5 [] d = "sun" -> 6]

DEFAULT_WORKING_DAYS == {0, 1, 2, 3, 4}

\* d.strip().lower() on the pieces of a configuration text
StripLower(d) ==
    CASE d = " Sat" -> "sat"
      [] d = "SUN"  -> "sun"
      [] OTHER      -> d

_parse_working_days_NoDefault(config) ==
    { DAY_ABBR_MAP[StripLower(config[i])] :
        i \in { j \in 1..Len(config) : StripLower(config[j]) \in DOMAIN DAY_ABBR_MAP } }

\* a configuration text is the sequence of its comma-separated pieces;
\* <<>> is the unset (None or empty) configuration
_parse_working_days(config) ==
    IF config = <<>> THEN DEFAULT_WORKING_DAYS
    ELSE LET working_days ==
                 { DAY_ABBR_MAP[StripLower(config[i])] :
                     i \in { j \in 1..Len(config) :
                               StripLower(config[j]) \in DOMAIN DAY_ABBR_MAP } }
         IN  IF working_days # {} THEN working_days ELSE DEFAULT_WORKING_DAYS

\* the days of the target month met while walking from current to end
RECURSIVE leave_walk(_, _, _, _)
leave_walk(current, end, year, mon) ==
    IF ~DateLE(current, end) THEN {}
    ELSE (IF current[1] = year /\ current[2] = mon THEN {current[3]} ELSE {})
            \cup leave_walk(next_day(current), end, year, mon)

leave_days(leave_rows, year, mon) ==
    UNION { IF lr.start_date = NoDate THEN {}
            ELSE leave_walk(_parse_date(lr.start_date),
                            IF lr.end_date # NoDate THEN _parse_date(lr.end_date)
                                                     ELSE _parse_date(lr.start_date),
                            year, mon)
          : lr \in leave_rows }

holidays(holiday_rows) ==
    { _extract_day_from_date(hr.date) : hr \in holiday_rows } \ {0}

\* ORDER BY date on the fetched values
RECURSIVE order_by_date(_)
order_by_date(dates) ==
    IF dates = {} THEN <<>>
    ELSE LET first == CHOOSE d \in dates :
                         \A e \in dates :
                            \/ e = d
                            \/ DateLT(d, e)
                            \/ ~DateLT(e, d) /\ d[4] < e[4]
         IN  <<first>> \o order_by_date(dates \ {first})

\* attendance_query, lines 410-426: one row for every date of the punches
\* of the month, its flags the maxima over the punches of that date
attendance_query(table) ==
    LET punches(d) == { i \in 1..Len(table) : table[i].date = d }
        dates == order_by_date({ table[i].date : i \in 1..Len(table) })
    IN  [ n \in 1..Len(dates) |->
            [ date |-> dates[n],
              is_late |-> IF \E i \in punches(dates[n]) : table[i].is_late = 1
                          THEN 1 ELSE 0,
              is_half_day |-> IF \E i \in punches(dates[n]) : table[i].is_half_day = 1
                              THEN 1 ELSE 0 ] ]

\* the punch row of each day that has one; a later row of the same day
\* replaces an earlier one
attendance_by_day(attendance_rows) ==
    LET day_num(i) == _extract_day_from_date(attendance_rows[i].date)
        idx == { i \in 1..Len(attendance_rows) : day_num(i) # 0 }
    IN  [ d \in { day_num(i) : i \in idx } |->
            attendance_rows[CHOOSE i \in idx :
                               /\ day_num(i) = d
                               /\ \A j \in idx : day_num(j) = d => j <= i] ]

\* an exception leaves get_attendance from the conversions of lines 394-467
lookups_raise(a) ==
    \/ _parse_date(a.date_of_joining) = ValueError
    \/ \E hr \in a.holiday_rows : _extract_day_from_date(hr.date) = NotANumber
    \/ \E i \in 1..Len(attendance_query(a.company_attendance)) :
           _extract_day_from_date(attendance_query(a.company_attendance)[i].date) = NotANumber
    \/ \E lr \in a.leave_rows :
           /\ lr.start_date # NoDate
           /\ \/ strptime(lr.start_date) = ValueError
              \/ lr.end_date # NoDate /\ strptime(lr.end_date) = ValueError

last_day_WholeMonth(year, mon, today) == monthrange(year, mon)

last_day(year, mon, today) ==
    IF year = today[1] /\ mon = today[2] THEN today[3] ELSE monthrange(year, mon)

day_status_PunchFirst(l, year, mon, day) ==
    IF l.doj_date # NoDate /\ DateLT(<<year, mon, day>>, l.doj_date) THEN "before_doj"
    ELSE IF day \in DOMAIN l.attendance_by_day THEN "present"
    ELSE IF day \in l.holidays THEN "holiday"
    ELSE IF weekday(year, mon, day) \notin l.working_days_set THEN "week_off"
    ELSE IF day \in l.leave_days THEN "leave"
    ELSE "absent"

\* the if/elif chain of the day loop
day_status(l, year, mon, day) ==
    IF l.doj_date # NoDate /\ DateLT(<<year, mon, day>>, l.doj_date) THEN "before_doj"
    ELSE IF day \in l.holidays THEN "holiday"
    ELSE IF weekday(year, mon, day) \notin l.working_days_set THEN "week_off"
    ELSE IF day \in l.leave_days THEN "leave"
    ELSE IF day \in DOMAIN l.attendance_by_day THEN "present"
    ELSE "absent"

day_info_FlagsAnyStatus(l, year, mon, day) ==
    [ date       |-> <<year, mon, day>>,
      day        |-> weekday(year, mon, day),
      status     |-> day_status(l, year, mon, day),
      is_late    |-> day \in DOMAIN l.attendance_by_day
                        /\ l.attendance_by_day[day].is_late = 1,
      is_half_day |-> day \in DOMAIN l.attendance_by_day
                        /\ l.attendance_by_day[day].is_half_day = 1 ]

day_info(l, year, mon, day) ==
    LET status == day_status(l, year, mon, day)
    IN  [ date       |-> <<year, mon, day>>,
          day        |-> weekday(year, mon, day),
          status     |-> status,
          is_late    |-> status = "present" /\ l.attendance_by_day[day].is_late = 1,
          is_half_day |-> status = "present" /\ l.attendance_by_day[day].is_half_day = 1 ]

Bump(s, field) == [s EXCEPT ![field] = @ + 1]

summary_update_CountHoliday(s, info) ==
    LET counted == Bump(s, info.status)
        worked  == IF info.status \in {"holiday", "leave", "present", "absent"}
                   THEN Bump(counted, "working_days") ELSE counted
        late    == IF info.is_late THEN Bump(worked, "late") ELSE worked
    IN  IF info.is_half_day THEN Bump(late, "half_day") ELSE late

summary_update_SkipWeekOff(s, info) ==
    LET counted == IF info.status = "week_off" THEN s ELSE Bump(s, info.status)
        worked  == IF info.status \in {"leave", "present", "absent"}
                   THEN Bump(counted, "working_days") ELSE counted
        late    == IF info.is_late THEN Bump(worked, "late") ELSE worked
    IN  IF info.is_half_day THEN Bump(late, "half_day") ELSE late

\* the increments of the summary for one classified day
summary_update(s, info) ==
    LET counted == Bump(s, info.status)
        worked  == IF info.status \in {"leave", "present", "absent"}
                   THEN Bump(counted, "working_days") ELSE counted
        late    == IF info.is_late THEN Bump(worked, "late") ELSE worked
    IN  IF info.is_half_day THEN Bump(late, "half_day") ELSE late

attendance_percentage_Truncated(s) ==
    IF s.working_days > 0 THEN (s.present * 1000) \div s.working_days ELSE 0

\* round(present / working_days * 100, 1), in tenths of a percent; a tie
\* goes to the even tenth
attendance_percentage(s) ==
    IF s.working_days > 0
    THEN LET n == s.present * 1000
             q == n \div s.working_days
             r == n % s.working_days
         IN  IF 2 * r > s.working_days \/ (2 * r = s.working_days /\ q % 2 = 1)
             THEN q + 1 ELSE q
    ELSE 0

\* --- inputs of the monthly classification ---------------------------------

Todays == { <<2026, 11, 12>>, <<2026, 12, 1>> }

\* the current month of the first today, a later month and a leap February
Months == { <<2026, 11>>, <<2026, 12>>, <<2024, 2>> }

JoiningDates ==
    { NoDate, <<2026, 11, 10, 0>>, <<2026, 11, 11, 0>>, <<2024, 2, 10, 1>>, <<2027, 1, 5, 0>> }

WorkingDayConfigs ==
    { [emp |-> <<>>, branch |-> <<>>],
      [emp |-> <<"mon", "tue", "wed", "thu", "fri", " Sat">>, branch |-> <<"SUN">>],
      [emp |-> <<"xyz">>, branch |-> <<"SUN", "thu">>],
      [emp |-> <<>>, branch |-> <<"SUN", "thu">>] }

HolidayDaySets == { {}, {11}, {9, 11} }

\* the punches of the month, each <<day, number of the punch in its day>>;
\* the last one has two punches on day 11
PunchDaySeqs ==
    { <<>>, <<<<9, 0>>, <<11, 0>>>>, <<<<11, 0>>, <<12, 0>>>>,
      <<<<9, 0>>, <<11, 0>>, <<12, 0>>>>, <<<<11, 0>>, <<11, 1>>, <<12, 0>>>> }

\* a company_attendance row with its late and half-day flags
PunchRow(year, mon, p) ==
    [ date |-> <<year, mon, p[1], 0>>,
      is_late |-> IF p[1] = 12 \/ p[2] = 1 THEN 1 ELSE 0,
      is_half_day |-> IF p[1] = 11 /\ p[2] = 0 THEN 1 ELSE 0 ]

LeaveRowSets ==
    { {},
      { [start_date |-> <<2026, 11, 11, 0>>, end_date |-> <<2026, 11, 12, 0>>] },
      { [start_date |-> <<2026, 11, 29, 0>>, end_date |-> <<2026, 12, 2, 0>>],
        [start_date |-> <<2024, 2, 12, 0>>, end_date |-> NoDate] } }

\* one fetched value that is not a date, in each place a date is read
MalformedDates == { <<2026, 13, 45, 0>>, <<2026, 11, NotANumber, 0>> }

BaseInput ==
    [ year |-> 2026, mon |-> 11, today |-> <<2026, 11, 12>>,
      date_of_joining    |-> <<2026, 11, 10, 0>>,
      emp_working_day    |-> <<>>,
      branch_working_day |-> <<>>,
      holiday_rows       |-> { [date |-> <<2026, 11, 11, 0>>] },
      company_attendance |-> << PunchRow(2026, 11, <<11, 0>>), PunchRow(2026, 11, <<12, 0>>) >>,
      leave_rows         |-> {} ]

MalformedInputs ==
    UNION { { [BaseInput EXCEPT !.date_of_joining = bad],
              [BaseInput EXCEPT !.holiday_rows = @ \cup { [date |-> bad] }],
              [BaseInput EXCEPT !.company_attendance =
                  Append(@, [date |-> bad, is_late |-> 1, is_half_day |-> 0])],
              [BaseInput EXCEPT !.leave_rows =
                  { [start_date |-> bad, end_date |-> NoDate] }],
              [BaseInput EXCEPT !.leave_rows =
                  { [start_date |-> <<2026, 11, 12, 0>>, end_date |-> bad] }] }
            : bad \in MalformedDates }

WellFormedInputs ==
    { [ year |-> m[1], mon |-> m[2], today |-> t,
        date_of_joining   |-> doj,
        emp_working_day   |-> w.emp,
        branch_working_day |-> w.branch,
        holiday_rows      |-> { [date |-> <<m[1], m[2], d, 0>>] : d \in hs },
        company_attendance |-> [ i \in 1..Len(ps) |-> PunchRow(m[1], m[2], ps[i]) ],
        leave_rows        |-> ls ] :
        m \in Months, t \in Todays, doj \in JoiningDates, w \in WorkingDayConfigs,
        hs \in HolidayDaySets, ps \in PunchDaySeqs, ls \in LeaveRowSets }

AttendanceInputs == WellFormedInputs \cup MalformedInputs

InitAtt ==
    /\ pc = "config"
    /\ att \in AttendanceInputs
    /\ loc = NoValue
    /\ summary = NoValue
    /\ days = <<>>
    /\ report = NoValue
    /\ slip_row = NoValue /\ slip = NoValue
    /\ prob = NoValue /\ probation = NoValue
    /\ creds = NoValue /\ store = NoValue
    /\ SUPER_ADMIN_PHONE = PhoneA
    /\ ctx = UserContext(PhoneB, <<Membership(1, ROLE_EMPLOYEE)>>)
    /\ emp_id = 1
    /\ args = NoValue
    /\ company_employee = NoValue
    /\ base_query = <<>>
    /\ table_alias = NoValue
    /\ company_filter = NoValue
    /\ query_to_run = <<>>
    /\ rows = NoValue
    /\ table_access = NoValue
    /\ result = NoValue
    /\ heap = NoValue /\ _sessions = NoValue /\ _lock = NoValue
    /\ now = NoValue /\ threads = NoValue
    /\ data = NoValue /\ filtered = NoValue

otherVars == <<SUPER_ADMIN_PHONE, ctx, base_query, table_alias, company_filter,
               query_to_run, rows, table_access, args, company_employee, emp_id,
               slipVars, probVars, authVars, sessVars, sensVars>>

\* lines 387-489: the lookups, the last day to process and the empty summary
BuildLookups ==
    /\ pc = "config"
    /\ ~lookups_raise(att)
    /\ pc' = "loop"
    /\ loc' = [ doj_date |-> _parse_date(att.date_of_joining),
                working_days_set |->
                    _parse_working_days(IF att.emp_working_day # <<>>
                                        THEN att.emp_working_day
                                        ELSE att.branch_working_day),
                holidays |-> holidays(att.holiday_rows),
                attendance_by_day |->
                    attendance_by_day(attendance_query(att.company_attendance)),
                leave_days |-> leave_days(att.leave_rows, att.year, att.mon),
                last_day |-> last_day(att.year, att.mon, att.today),
                day |-> 1 ]
    /\ summary' = [ total_days |-> last_day(att.year, att.mon, att.today),
                    working_days |-> 0, present |-> 0, absent |-> 0, late |-> 0,
                    half_day |-> 0, leave |-> 0, holiday |-> 0, week_off |-> 0,
                    before_doj |-> 0 ]
    /\ days' = <<>>
    /\ UNCHANGED <<att, report, result, otherVars>>

\* lines 394-467: a conversion raises and the exception leaves the tool
BuildLookupsRaises ==
    /\ pc = "config"
    /\ lookups_raise(att)
    /\ pc' = "raised"
    /\ result' = "ValueError"
    /\ UNCHANGED <<att, loc, summary, days, report, otherVars>>

\* lines 491-580: one iteration of the day loop
ClassifyDay ==
    /\ pc = "loop"
    /\ loc.day <= loc.last_day
    /\ LET info == day_info(loc, att.year, att.mon, loc.day)
       IN  /\ summary' = summary_update(summary, info)
           /\ days' = Append(days, info)
    /\ loc' = [loc EXCEPT !.day = @ + 1]
    /\ UNCHANGED <<pc, att, report, result, otherVars>>

\* lines 582-602: the percentage and the returned result
ReturnAttendance ==
    /\ pc = "loop"
    /\ loc.day > loc.last_day
    /\ pc' = "done"
    /\ summary' = [ f \in DOMAIN summary \cup {"attendance_percentage"} |->
                      IF f = "attendance_percentage" THEN attendance_percentage(summary)
                      ELSE summary[f] ]
    /\ result' = "attendance"
    /\ UNCHANGED <<att, loc, days, report, otherVars>>

\* --- get_attendance_report, for one employee of its list ------------------

\* COUNT(DISTINCT date) over the punches of the month, lines 897-906
present_days_query(table) == Cardinality({ table[i].date : i \in 1..Len(table) })

DateMax(a, b) == IF DateLT(a, b) THEN b ELSE a

DateMin(a, b) == IF DateLT(a, b) THEN a ELSE b

\* lines 955-962: the days of one leave row inside the month
leave_days_count(lr, year, mon) ==
    LET start == strptime(lr.start_date)
        end   == IF lr.end_date = NoDate THEN start ELSE strptime(lr.end_date)
        effective_start == DateMax(start, <<year, mon, 1>>)
        effective_end   == DateMin(end, <<year, mon, monthrange(year, mon)>>)
    IN  IF lr.start_date = NoDate THEN 0
        ELSE IF DateLE(effective_start, effective_end)
             THEN toordinal(effective_end) - toordinal(effective_start) + 1
             ELSE 0

\* leave_map[emp_id], the sum over the fetched leave rows
RECURSIVE leave_map(_, _, _)
leave_map(leave_rows, year, mon) ==
    IF leave_rows = {} THEN 0
    ELSE LET lr == CHOOSE r \in leave_rows : TRUE
         IN  leave_days_count(lr, year, mon) + leave_map(leave_rows \ {lr}, year, mon)

\* lines 1013-1031: the days up to last_day that are not before the joining
\* date, not a non-working weekday and not a holiday
expected_working_days(a) ==
    LET working_days_set == _parse_working_days(IF a.emp_working_day # <<>>
                                                THEN a.emp_working_day
                                                ELSE a.branch_working_day)
        doj_date == _parse_date(a.date_of_joining)
        branch_holidays == holidays(a.holiday_rows)
    IN  Cardinality({ day \in 1..last_day(a.year, a.mon, a.today) :
                        /\ ~(doj_date # NoDate /\ DateLT(<<a.year, a.mon, day>>, doj_date))
                        /\ weekday(a.year, a.mon, day) \in working_days_set
                        /\ day \notin branch_holidays })

\* lines 1033-1054: the employee's counts
absent_entry(a) ==
    LET present_days == present_days_query(a.company_attendance)
        leave_days_n == leave_map(a.leave_rows, a.year, a.mon)
        difference   == expected_working_days(a) - present_days - leave_days_n
    IN  [ absent_days   |-> IF difference > 0 THEN difference ELSE 0,
          expected_days |-> expected_working_days(a),
          present_days  |-> present_days,
          leave_days    |-> leave_days_n ]

\* get_attendance_report asked for the month and the employee that
\* get_attendance has just answered for, over the same facts
get_attendance_report ==
    /\ pc = "done"
    /\ pc' = "reported"
    /\ report' = absent_entry(att)
    /\ UNCHANGED <<att, loc, summary, days, result, otherVars>>

NextAtt == BuildLookups \/ BuildLookupsRaises \/ ClassifyDay \/ ReturnAttendance
              \/ get_attendance_report

SpecAtt == InitAtt /\ [][NextAtt]_vars

-----------------------------------------------------------------------------
(* tools/salary.py: get_salary_slip for the principal's own slip.  Amounts *)
(* are held in hundredths, day_in_month in tenths of a day, 0 is a missing *)
(* (None) or zero column                                                   *)

MaxLateDays == 8

\* round(n / d, 2) for d > 0, in hundredths: the nearest hundredth; a value
\* that ends exactly on half a hundredth goes up or down as its binary
\* representation happens to fall
round_2(n, d) ==
    LET q == n \div d
        r == n % d
    IN  IF 2 * r < d THEN {q} ELSE IF 2 * r > d THEN {q + 1} ELSE {q, q + 1}

\* int(float(row.get("day_in_month") or days_in_month))
pay_period_days(row, days_in_month) ==
    IF row.day_in_month # 0 THEN row.day_in_month \div 10 ELSE days_in_month

salary_calc_type(row) ==
    IF row.salary_calculation_type # "" THEN row.salary_calculation_type
    ELSE "month_total_day"

rate_basis(row) ==
    IF salary_calc_type(row) = "month_total_day" THEN "calendar_days" ELSE "working_days"

rate_divisor_AlwaysCalendar(row, days_in_month) == pay_period_days(row, days_in_month)

\* the day count the gross is divided by
rate_divisor(row, days_in_month) ==
    IF salary_calc_type(row) = "month_total_day" THEN pay_period_days(row, days_in_month)
    ELSE IF row.working_day_in_month # 0 THEN row.working_day_in_month
    ELSE pay_period_days(row, days_in_month)

\* the values round(gross / divisor, 2) can take
daily_rate(row, days_in_month) ==
    IF rate_divisor(row, days_in_month) > 0
    THEN round_2(row.total_allowance, rate_divisor(row, days_in_month))
    ELSE {0}

\* lines 344-369
is_joining_month(row) ==
    /\ row.date_of_joining # NoDate
    /\ row.from_date # NoDate
    /\ row.date_of_joining[1] = row.from_date[1]
    /\ row.date_of_joining[2] = row.from_date[2]

pre_joining_days(row) ==
    IF is_joining_month(row) THEN row.date_of_joining[3] - 1 ELSE 0

effective_absent_from_late_EveryLate(late_days, allowed_late) ==
    IF allowed_late > 0 /\ late_days > 0
    THEN (late_days + allowed_late - 1) \div allowed_late ELSE 0

effective_absent_from_late(late_days, allowed_late) ==
    IF allowed_late > 0 /\ late_days >= allowed_late
    THEN late_days \div allowed_late ELSE 0

Max(a, b) == IF a >= b THEN a ELSE b

attendance_deductions_FullHalfDay(row, rate, half_amount) ==
    LET late == effective_absent_from_late(row.late_day, row.allowed_late_day)
    IN  [ daily_rate |-> rate,
          daily_rate_basis |-> rate_basis(row),
          is_joining_month |-> is_joining_month(row),
          absent_deduction |->
              [ days |-> row.absent,
                pre_joining_days |-> pre_joining_days(row),
                actual_absent_days |->
                    IF is_joining_month(row) /\ pre_joining_days(row) > 0
                    THEN Max(0, row.absent - pre_joining_days(row)) ELSE row.absent,
                amount |-> row.absent * rate ],
          half_day_deduction |-> [ days |-> row.half_day, amount |-> row.half_day * rate ],
          late_deduction |->
              [ late_days |-> row.late_day, effective_absent |-> late,
                amount |-> late * rate ],
          total_attendance_deduction |->
              row.absent * rate + row.half_day * rate + late * rate ]

\* lines 380-398 and 444-468, for a daily rate and a rounded half-day amount
attendance_deductions(row, rate, half_amount) ==
    LET late == effective_absent_from_late(row.late_day, row.allowed_late_day)
    IN  [ daily_rate |-> rate,
          daily_rate_basis |-> rate_basis(row),
          is_joining_month |-> is_joining_month(row),
          absent_deduction |->
              [ days |-> row.absent,
                pre_joining_days |-> pre_joining_days(row),
                actual_absent_days |->
                    IF is_joining_month(row) /\ pre_joining_days(row) > 0
                    THEN Max(0, row.absent - pre_joining_days(row)) ELSE row.absent,
                amount |-> row.absent * rate ],
          half_day_deduction |-> [ days |-> row.half_day, amount |-> half_amount ],
          late_deduction |->
              [ late_days |-> row.late_day, effective_absent |-> late,
                amount |-> late * rate ],
          total_attendance_deduction |->
              row.absent * rate + half_amount + late * rate ]

SlipMonths == { <<2026, 11>>, <<2024, 2>> }

SlipJoiningDates == { NoDate, <<2026, 11, 10, 0>>, <<2026, 10, 10, 0>> }

SlipRows ==
    { [ found |-> TRUE, total_allowance |-> g, absent |-> a, half_day |-> h,
        late_day |-> l, allowed_late_day |-> al, salary_calculation_type |-> ty,
        day_in_month |-> dim, working_day_in_month |-> wd,
        date_of_joining |-> doj, from_date |-> <<2026, 11, 1, 0>> ] :
        g \in {0, 10000, 3100000}, a \in {0, 12}, h \in {0, 1},
        l \in 0..MaxLateDays, al \in {0, 3},
        ty \in {"", "month_total_day", "working_day"},
        dim \in {0, 5, 300}, wd \in {0, 22}, doj \in SlipJoiningDates }

NoSlipRow ==
    [ found |-> FALSE, total_allowance |-> 0, absent |-> 0, half_day |-> 0,
      late_day |-> 0, allowed_late_day |-> 0, salary_calculation_type |-> "",
      day_in_month |-> 0, working_day_in_month |-> 0,
      date_of_joining |-> NoDate, from_date |-> NoDate ]

InitSlip ==
    /\ pc = "slip"
    /\ args \in { [month |-> m] : m \in SlipMonths }
    /\ \/ /\ ctx = UserContext(PhoneB, <<Membership(1, ROLE_EMPLOYEE)>>)
          /\ slip_row \in SlipRows \cup {NoSlipRow}
       \/ /\ ctx = UserContext(PhoneB, <<>>)
          /\ slip_row = NoSlipRow
    /\ slip = NoValue
    /\ result = NoValue
    /\ SUPER_ADMIN_PHONE = PhoneA
    /\ emp_id = 0
    /\ company_employee = NoValue
    /\ base_query = <<>>
    /\ table_alias = NoValue
    /\ company_filter = NoValue
    /\ query_to_run = <<>>
    /\ rows = NoValue
    /\ table_access = NoValue
    /\ report = NoValue
    /\ att = NoValue /\ loc = NoValue /\ summary = NoValue /\ days = NoValue
    /\ prob = NoValue /\ probation = NoValue
    /\ creds = NoValue /\ store = NoValue
    /\ heap = NoValue /\ _sessions = NoValue /\ _lock = NoValue
    /\ now = NoValue /\ threads = NoValue
    /\ data = NoValue /\ filtered = NoValue

slipOtherVars == <<SUPER_ADMIN_PHONE, ctx, base_query, table_alias, company_filter,
                   query_to_run, rows, table_access, args, company_employee, emp_id,
                   slip_row, attVars, probVars, authVars, sessVars, sensVars>>

\* lines 293-295
SlipNoCompany ==
    /\ pc = "slip"
    /\ primary_index(ctx) = 0
    /\ pc' = "done"
    /\ result' = "No company association found."
    /\ UNCHANGED <<slip, slipOtherVars>>

\* lines 319-322
SlipNotFound ==
    /\ pc = "slip"
    /\ primary_index(ctx) # 0
    /\ ~slip_row.found
    /\ pc' = "done"
    /\ result' = "No salary slip found"
    /\ UNCHANGED <<slip, slipOtherVars>>

\* lines 324-477
SlipComputed ==
    /\ pc = "slip"
    /\ primary_index(ctx) # 0
    /\ slip_row.found
    /\ \E rate \in daily_rate(slip_row, monthrange(args.month[1], args.month[2])) :
         \E half_amount \in round_2(slip_row.half_day * rate, 2) :
            slip' = attendance_deductions(slip_row, rate, half_amount)
    /\ pc' = "done"
    /\ result' = "salary_slip"
    /\ UNCHANGED slipOtherVars

NextSlip == SlipNoCompany \/ SlipNotFound \/ SlipComputed

SpecSlip == InitSlip /\ [][NextSlip]_vars

-----------------------------------------------------------------------------
(* tools/employee.py: the probation date calculation                       *)

MaxProbationMonths == 13

Min(a, b) == IF a <= b THEN a ELSE b

_add_months_NoClamp(source_date, months) ==
    LET month == source_date[2] - 1 + months
    IN  <<source_date[1] + (month \div 12), (month % 12) + 1, source_date[3]>>

_add_months(source_date, months) ==
    LET month   == source_date[2] - 1 + months
        year    == source_date[1] + (month \div 12)
        month_  == (month % 12) + 1
        max_day == monthrange(year, month_)
    IN  <<year, month_, Min(source_date[3], max_day)>>

NoProbation ==
    [ probation_end |-> NoDate, is_overdue |-> FALSE,
      has_days_remaining |-> FALSE, days_remaining |-> 0 ]

_calculate_probation_status_OverdueToday(doj_date, probation_months, today) ==
    IF doj_date = NoDate \/ probation_months <= 0 THEN NoProbation
    ELSE LET probation_end == _add_months(doj_date, probation_months)
         IN  [ probation_end |-> probation_end,
               is_overdue |-> DateLE(probation_end, today),
               has_days_remaining |-> TRUE,
               days_remaining |-> toordinal(probation_end) - toordinal(today) ]

\* has_days_remaining is FALSE where the code returns None for the days
_calculate_probation_status(doj_date, probation_months, today) ==
    IF doj_date = NoDate \/ probation_months <= 0 THEN NoProbation
    ELSE LET probation_end == _add_months(doj_date, probation_months)
         IN  [ probation_end |-> probation_end,
               is_overdue |-> DateLT(probation_end, today),
               has_days_remaining |-> TRUE,
               days_remaining |-> toordinal(probation_end) - toordinal(today) ]

ProbationJoiningDates ==
    { NoDate, <<2024, 1, 31>>, <<2023, 1, 31>>, <<2025, 11, 30>>, <<2026, 8, 31>>,
      <<2026, 5, 3>>, <<2024, 2, 29>>, <<2025, 12, 15>> }

ProbationTodays == { <<2026, 11, 3>>, <<2024, 2, 29>>, <<2027, 1, 1>> }

ProbationInputs ==
    { [doj_date |-> d, probation_months |-> n, today |-> t] :
        d \in ProbationJoiningDates, n \in (-1)..MaxProbationMonths, t \in ProbationTodays }

InitProbation ==
    /\ pc = "probation"
    /\ prob \in ProbationInputs
    /\ probation = NoValue
    /\ result = NoValue
    /\ SUPER_ADMIN_PHONE = PhoneA
    /\ ctx = UserContext(PhoneB, <<Membership(1, ROLE_COMPANY_ADMIN)>>)
    /\ emp_id = 0
    /\ args = NoValue
    /\ company_employee = NoValue
    /\ base_query = <<>>
    /\ table_alias = NoValue
    /\ company_filter = NoValue
    /\ query_to_run = <<>>
    /\ rows = NoValue
    /\ table_access = NoValue
    /\ report = NoValue
    /\ att = NoValue /\ loc = NoValue /\ summary = NoValue /\ days = NoValue
    /\ slip_row = NoValue /\ slip = NoValue
    /\ creds = NoValue /\ store = NoValue
    /\ heap = NoValue /\ _sessions = NoValue /\ _lock = NoValue
    /\ now = NoValue /\ threads = NoValue
    /\ data = NoValue /\ filtered = NoValue

probOtherVars == <<SUPER_ADMIN_PHONE, ctx, base_query, table_alias, company_filter,
                   query_to_run, rows, table_access, args, company_employee, emp_id,
                   prob, attVars, slipVars, authVars, sessVars, sensVars>>

\* _add_months applied to a date and a month count that is not negative
AddMonths ==
    /\ pc = "probation"
    /\ prob.doj_date # NoDate
    /\ prob.probation_months >= 0
    /\ probation' = _add_months(prob.doj_date, prob.probation_months)
    /\ pc' = "done"
    /\ result' = "_add_months"
    /\ UNCHANGED probOtherVars

\* lines 481-486 of the probation listing: the status of one employee row
CalculateProbationStatus ==
    /\ pc = "probation"
    /\ probation' = _calculate_probation_status(prob.doj_date, prob.probation_months,
                                                prob.today)
    /\ pc' = "done"
    /\ result' = "_calculate_probation_status"
    /\ UNCHANGED probOtherVars

NextProbation == AddMonths \/ CalculateProbationStatus

SpecProbation == InitProbation /\ [][NextProbation]_vars

-----------------------------------------------------------------------------
(* auth.py get_user_context and auth_session.py                            *)
(* get_user_context_for_session, followed by one scoped query              *)

MaxMemberRows == 2

MaxAttendanceCount == 2

\* the company_employee rows of the user in insertion order, with the
\* attendance count joined to each; 0 is a NULL role or branch
MemberRow(i, cnt) ==
    [ company_employee_id |-> i, company_id |-> EmployeeCompany(i),
      company_branch_id |-> IF i = 1 THEN 0 ELSE EmployeeBranch(i),
      role_id |-> IF i = 1 THEN 0 ELSE ROLE_BRANCH_MANAGER,
      attendance_count |-> cnt ]

MemberTables ==
    UNION { { [i \in 1..n |-> MemberRow(i, cnts[i])] :
                cnts \in [1..n -> 0..MaxAttendanceCount] } : n \in 0..MaxMemberRows }

\* ORDER BY attendance_count DESC: every order of the rows with the counts
\* not increasing; rows of equal count come in any order
order_by_attendance(table) ==
    { [i \in 1..Len(table) |-> table[p[i]]] :
        p \in { q \in [1..Len(table) -> 1..Len(table)] :
                  /\ \A i, j \in 1..Len(table) : i # j => q[i] # q[j]
                  /\ \A i, j \in 1..Len(table) :
                        i < j => table[q[i]].attendance_count >= table[q[j]].attendance_count } }

companies_of_LastPrimary(fetched) ==
    [ i \in 1..Len(fetched) |->
        [ company_employee_id |-> fetched[i].company_employee_id,
          company_id |-> fetched[i].company_id,
          company_branch_id |-> fetched[i].company_branch_id,
          role_id |-> IF fetched[i].role_id # 0 THEN fetched[i].role_id ELSE 3,
          attendance_count |-> fetched[i].attendance_count,
          is_primary |-> (i = Len(fetched)) ] ]

\* lines 173-190: one CompanyContext per fetched row, the first one primary
companies_of(fetched) ==
    [ i \in 1..Len(fetched) |->
        [ company_employee_id |-> fetched[i].company_employee_id,
          company_id |-> fetched[i].company_id,
          company_branch_id |-> fetched[i].company_branch_id,
          role_id |-> IF fetched[i].role_id # 0 THEN fetched[i].role_id ELSE 3,
          attendance_count |-> fetched[i].attendance_count,
          is_primary |-> (i = 1) ] ]

NoContext ==
    [ is_none |-> TRUE, user_id |-> 0, user_name |-> "", phone |-> <<>>, companies |-> <<>> ]

Context(user_id, user_name, phone, companies) ==
    [ is_none |-> FALSE, user_id |-> user_id, user_name |-> user_name, phone |-> phone,
      companies |-> companies ]

\* auth.py lines 122-195; outcome is the fetched rows or the failure of the
\* fetch
get_user_context(cr, outcome) ==
    IF ~cr.present THEN NoContext
    ELSE IF cr.user_id = 0
    THEN (IF is_super_admin([phone |-> cr.phone])
          THEN Context(0, IF cr.user_name # "" THEN cr.user_name ELSE "Super Admin",
                       cr.phone, <<>>)
          ELSE NoContext)
    ELSE IF outcome.ok
    THEN Context(cr.user_id, cr.user_name, cr.phone, companies_of(outcome.rows))
    ELSE Context(cr.user_id, cr.user_name, cr.phone, <<>>)

\* auth_session.py lines 15-84; present is 'session and session.is_authenticated'
get_user_context_for_session(session, outcome) ==
    IF ~session.present THEN NoContext
    ELSE IF session.user_id = 0
    THEN (IF is_super_admin([phone |-> session.phone])
          THEN Context(0, IF session.user_name # "" THEN session.user_name
                                                    ELSE "Super Admin",
                       session.phone, <<>>)
          ELSE NoContext)
    ELSE IF outcome.ok
    THEN Context(session.user_id, session.user_name, session.phone,
                 companies_of(outcome.rows))
    ELSE Context(session.user_id, session.user_name, session.phone, <<>>)

\* what a tool finds when it asks for the principal: no credentials (or no
\* session under the id), a session whose OTP is still pending, a session
\* that get_session found expired and dropped, or an authenticated one
PrincipalStates == { "absent", "pending", "expired", "active" }

\* present is 'creds' for the credentials file and 'session and
\* session.is_authenticated' for a session looked up by its id
CredentialCases ==
    { [source |-> "credentials", state |-> "absent", present |-> FALSE, user_id |-> 0,
       user_name |-> "", phone |-> <<>>] }
    \cup
    { [source |-> "session", state |-> st, present |-> FALSE, user_id |-> u,
       user_name |-> "", phone |-> PhoneB] :
        st \in PrincipalStates \ {"active"}, u \in {0, 7} }
    \cup
    { [source |-> s, state |-> "active", present |-> TRUE, user_id |-> u,
       user_name |-> n, phone |-> ph] :
        s \in {"credentials", "session"}, u \in {0, 7}, n \in {"", "Asha"},
        ph \in {PhoneAIntl, PhoneB} }

\* one query without a trailing clause, one with LIMIT, one sorted
ContextQueries ==
    { QueryHead \o <<Tok("WHERE"), Tok("p")>> \o t :
        t \in { <<>>, <<Tok("limit"), Tok("5")>>, <<Tok("order by"), Tok("p")>> } }

InitContext ==
    /\ pc = "auth"
    /\ creds \in CredentialCases
    /\ store \in { [rows |-> t, fails |-> f, fetched |-> <<>>, queries |-> 0] :
                     t \in MemberTables, f \in BOOLEAN }
    /\ ctx = NoContext
    /\ SUPER_ADMIN_PHONE = PhoneA
    /\ base_query \in ContextQueries
    /\ table_alias = "ce"
    /\ company_filter = NoValue
    /\ query_to_run = NoValue
    /\ rows = NoValue
    /\ table_access = NoValue
    /\ result = NoValue
    /\ args = NoValue
    /\ company_employee = NoValue
    /\ emp_id = 0
    /\ report = NoValue
    /\ att = NoValue /\ loc = NoValue /\ summary = NoValue /\ days = NoValue
    /\ slip_row = NoValue /\ slip = NoValue
    /\ prob = NoValue /\ probation = NoValue
    /\ heap = NoValue /\ _sessions = NoValue /\ _lock = NoValue
    /\ now = NoValue /\ threads = NoValue
    /\ data = NoValue /\ filtered = NoValue

authOtherVars == <<SUPER_ADMIN_PHONE, base_query, table_alias, company_filter,
                   query_to_run, rows, table_access, args, company_employee, emp_id,
                   creds, attVars, slipVars, probVars, sessVars, sensVars>>

NotAuthenticated == "Not authenticated. Please login first."

_require_auth_Proceeds(c) == "UserContext"

\* what the tool does with the principal it was given
_require_auth(c) == IF c.is_none THEN NotAuthenticated ELSE "UserContext"

\* the membership query is issued only for an identified user
issues_fetch(cr) == cr.present /\ cr.user_id # 0

\* the principal is built; the tool returns the error or goes on to scope
\* its query with it
Authenticated(c, fetched) ==
    /\ ctx' = c
    /\ store' = [store EXCEPT !.fetched = IF issues_fetch(creds) THEN fetched ELSE <<>>,
                              !.queries = IF issues_fetch(creds) THEN 1 ELSE 0]
    /\ result' = _require_auth(c)
    /\ pc' = IF _require_auth(c) = NotAuthenticated THEN "done" ELSE "scope"
    /\ UNCHANGED authOtherVars

GetUserContext ==
    /\ pc = "auth"
    /\ creds.source = "credentials"
    /\ \E fetched \in order_by_attendance(store.rows) :
          Authenticated(get_user_context(creds, [ok |-> ~store.fails, rows |-> fetched]),
                        fetched)

GetUserContextForSession ==
    /\ pc = "auth"
    /\ creds.source = "session"
    /\ \E fetched \in order_by_attendance(store.rows) :
          Authenticated(get_user_context_for_session(
                            creds, [ok |-> ~store.fails, rows |-> fetched]),
                        fetched)

NextContext == GetUserContext \/ GetUserContextForSession \/ ScopeQuery \/ FetchAll

SpecContext == InitContext /\ [][NextContext]_vars

-----------------------------------------------------------------------------
(* sessions.py: the SessionManager used by several threads, and the reads  *)
(* of auth_session.py through a Session reference                          *)

MaxSessionId == 1

MaxTime == 3

\* SessionManager(session_timeout), in ticks of the clock
_session_timeout == 1

Threads == {1, 2}

SessionIds == 1..MaxSessionId

\* the slot of an id no Session was created under
\* user_id not read yet
Unread == 0 - 1

\* nothing read through a reference in the current call
NoSeen == [is_authenticated |-> FALSE, user_id |-> Unread]

NoSession ==
    [ created |-> FALSE, is_authenticated |-> FALSE, user_id |-> 0, last_activity |-> 0 ]

\* Session(session_id=...): the defaults of the dataclass; 0 is user_id None
Session(time) ==
    [ created |-> TRUE, is_authenticated |-> FALSE, user_id |-> 0, last_activity |-> time ]

is_expired_AtTimeout(session, time, timeout_seconds) ==
    time - session.last_activity >= timeout_seconds

\* time.time() - self.last_activity > timeout_seconds
is_expired(session, time, timeout_seconds) ==
    time - session.last_activity > timeout_seconds

update_activity(session, time) == [session EXCEPT !.last_activity = time]

\* hasattr(session, key)
hasattr(session, key) == key \in {"is_authenticated", "user_id", "last_activity"}

\* the keyword arguments of the update_session call that completes a login,
\* in the order they are given; companies is no attribute of Session
UpdateKwargs == << <<"is_authenticated", TRUE>>, <<"user_id", 7>>, <<"companies", 0>> >>

Idle ==
    [ pc |-> "idle", op |-> "", sid |-> 0, k |-> 0, ref |-> 0, ret |-> 0,
      seen |-> NoSeen ]

\* the thread is back from a call with the returned reference or number
Returned(t, op, ref, ret) ==
    threads' = [threads EXCEPT ![t] =
                   [@ EXCEPT !.pc = "idle", !.op = op, !.sid = 0, !.k = 0,
                             !.ref = ref, !.ret = ret, !.seen = NoSeen]]

expired_ids == { sid \in _sessions : is_expired(heap[sid], now, _session_timeout) }

InitSession ==
    /\ pc = "sessions"
    /\ heap = [sid \in SessionIds |-> NoSession]
    /\ _sessions = {}
    /\ _lock = 0
    /\ now = 0
    /\ threads = [t \in Threads |-> Idle]
    /\ SUPER_ADMIN_PHONE = NoValue
    /\ ctx = NoValue
    /\ base_query = NoValue
    /\ table_alias = NoValue
    /\ company_filter = NoValue
    /\ query_to_run = NoValue
    /\ rows = NoValue
    /\ table_access = NoValue
    /\ result = NoValue
    /\ args = NoValue
    /\ company_employee = NoValue
    /\ emp_id = 0
    /\ report = NoValue
    /\ att = NoValue /\ loc = NoValue /\ summary = NoValue /\ days = NoValue
    /\ slip_row = NoValue /\ slip = NoValue
    /\ prob = NoValue /\ probation = NoValue
    /\ creds = NoValue /\ store = NoValue
    /\ data = NoValue /\ filtered = NoValue

sessOtherVars == <<pc, SUPER_ADMIN_PHONE, ctx, base_query, table_alias, company_filter,
                   query_to_run, rows, table_access, result, args, company_employee,
                   emp_id, attVars, slipVars, probVars, authVars, sensVars>>

\* the clock advances, whatever the threads are doing
Tick ==
    /\ now < MaxTime
    /\ now' = now + 1
    /\ UNCHANGED <<heap, _sessions, _lock, threads, sessOtherVars>>

\* lines 53-63: a Session under a fresh id is put into the map
create_session_by(t) ==
    /\ threads[t].pc = "idle"
    /\ _lock = 0
    /\ \E sid \in SessionIds :
          /\ ~heap[sid].created
          /\ \A other \in SessionIds : other < sid => heap[other].created
          /\ heap' = [heap EXCEPT ![sid] = Session(now)]
          /\ _sessions' = _sessions \cup {sid}
          /\ Returned(t, "create_session", sid, 0)
    /\ UNCHANGED <<_lock, now, sessOtherVars>>

create_session == \E t \in Threads : create_session_by(t)

\* lines 65-75
get_session_by(t, session_id) ==
    /\ threads[t].pc = "idle"
    /\ _lock = 0
    /\ IF session_id \in _sessions
       THEN IF is_expired(heap[session_id], now, _session_timeout)
            THEN /\ _sessions' = _sessions \ {session_id}
                 /\ heap' = heap
                 /\ Returned(t, "get_session", 0, 0)
            ELSE /\ heap' = [heap EXCEPT ![session_id] = update_activity(@, now)]
                 /\ _sessions' = _sessions
                 /\ Returned(t, "get_session", session_id, 0)
       ELSE /\ UNCHANGED <<heap, _sessions>>
            /\ Returned(t, "get_session", 0, 0)
    /\ UNCHANGED <<_lock, now, sessOtherVars>>

get_session == \E t \in Threads, session_id \in SessionIds : get_session_by(t, session_id)

\* lines 77-80 and 87: the lock is taken and the session looked up; None is
\* returned for an id the map does not hold
update_session_begin ==
    \E t \in Threads, session_id \in SessionIds :
        /\ threads[t].pc = "idle"
        /\ _lock = 0
        /\ IF session_id \in _sessions
           THEN /\ _lock' = t
                /\ threads' = [threads EXCEPT ![t] =
                                  [@ EXCEPT !.pc = "update", !.op = "update_session", !.sid = session_id,
                                             !.k = 1, !.ret = 0, !.seen = NoSeen]]
           ELSE /\ _lock' = 0
                /\ Returned(t, "update_session", 0, 0)
        /\ UNCHANGED <<heap, _sessions, now, sessOtherVars>>

\* lines 82-84: one iteration of the loop over kwargs
update_session_setattr ==
    \E t \in Threads :
        /\ threads[t].pc = "update"
        /\ threads[t].k <= Len(UpdateKwargs)
        /\ LET key   == UpdateKwargs[threads[t].k][1]
               value == UpdateKwargs[threads[t].k][2]
           IN  heap' = IF hasattr(heap[threads[t].sid], key)
                       THEN [heap EXCEPT ![threads[t].sid] = [@ EXCEPT ![key] = value]]
                       ELSE heap
        /\ threads' = [threads EXCEPT ![t] = [@ EXCEPT !.k = @ + 1]]
        /\ UNCHANGED <<_sessions, _lock, now, sessOtherVars>>

\* lines 85-86: update_activity, the lock is released, the session returned
update_session_end ==
    \E t \in Threads :
        /\ threads[t].pc = "update"
        /\ threads[t].k > Len(UpdateKwargs)
        /\ heap' = [heap EXCEPT ![threads[t].sid] = update_activity(@, now)]
        /\ _lock' = 0
        /\ Returned(t, "update_session", threads[t].sid, 0)
        /\ UNCHANGED <<_sessions, now, sessOtherVars>>

\* lines 89-95; 1 is True
delete_session_by(t, session_id) ==
    /\ threads[t].pc = "idle"
    /\ _lock = 0
    /\ _sessions' = _sessions \ {session_id}
    /\ Returned(t, "delete_session", 0, IF session_id \in _sessions THEN 1 ELSE 0)
    /\ UNCHANGED <<heap, _lock, now, sessOtherVars>>

delete_session == \E t \in Threads, session_id \in SessionIds : delete_session_by(t, session_id)

\* lines 97-108
cleanup_expired_by(t) ==
    /\ threads[t].pc = "idle"
    /\ _lock = 0
    /\ _sessions' = _sessions \ expired_ids
    /\ Returned(t, "cleanup_expired", 0, Cardinality(expired_ids))
    /\ UNCHANGED <<heap, _lock, now, sessOtherVars>>

cleanup_expired == \E t \in Threads : cleanup_expired_by(t)

\* lines 110-116
get_active_count ==
    \E t \in Threads :
        /\ threads[t].pc = "idle"
        /\ _lock = 0
        /\ Returned(t, "get_active_count", 0, Cardinality(_sessions \ expired_ids))
        /\ UNCHANGED <<heap, _sessions, _lock, now, sessOtherVars>>

\* auth_session.py lines 21-22: the thread reads is_authenticated through
\* the reference it holds, without the lock
read_is_authenticated ==
    \E t \in Threads :
        /\ threads[t].pc = "idle"
        /\ threads[t].ref # 0
        /\ threads' = [threads EXCEPT ![t] =
              [@ EXCEPT !.pc = IF heap[threads[t].ref].is_authenticated
                               THEN "read" ELSE "idle",
                        !.op = "get_user_context_for_session", !.ret = 0,
                        !.seen = [is_authenticated |-> heap[threads[t].ref].is_authenticated,
                                  user_id |-> Unread]]]
        /\ UNCHANGED <<heap, _sessions, _lock, now, sessOtherVars>>

\* auth_session.py line 24: then user_id
read_user_id ==
    \E t \in Threads :
        /\ threads[t].pc = "read"
        /\ threads' = [threads EXCEPT ![t] =
              [@ EXCEPT !.pc = "idle", !.seen.user_id = heap[threads[t].ref].user_id]]
        /\ UNCHANGED <<heap, _sessions, _lock, now, sessOtherVars>>

NextSession ==
    \/ Tick
    \/ create_session
    \/ get_session
    \/ update_session_begin
    \/ update_session_setattr
    \/ update_session_end
    \/ delete_session
    \/ cleanup_expired
    \/ get_active_count
    \/ read_is_authenticated
    \/ read_user_id

SpecSession == InitSession /\ [][NextSession]_vars

-----------------------------------------------------------------------------
(* rbac.py: filter_sensitive_fields on an employee profile.  A profile is *)
(* a function from the names of its columns to their values                *)

SENSITIVE_FIELDS ==
    << "pan_number", "aadhar_card_number", "uan_number", "bank_account_number",
       "bank_ifsc_code", "personal_email", "emergency_contact_number" >>

HIDDEN_VALUE == "***HIDDEN***"

get_all_company_employee_ids(c) ==
    { c.companies[i].company_employee_id : i \in 1..Len(c.companies) }

_is_own_employee_id(c, employee_id) == employee_id \in get_all_company_employee_ids(c)

_has_manager_role(c) == \E i \in 1..Len(c.companies) : c.companies[i].role_id # ROLE_EMPLOYEE

can_view_sensitive_fields_Managers(c, target_employee_id) ==
    is_super_admin(c) \/ _is_own_employee_id(c, target_employee_id) \/ _has_manager_role(c)

can_view_sensitive_fields(c, target_employee_id) ==
    is_super_admin(c) \/ _is_own_employee_id(c, target_employee_id)

\* the loop over SENSITIVE_FIELDS from its n-th name on
RECURSIVE hide_fields(_, _)
hide_fields(profile, n) ==
    IF n > Len(SENSITIVE_FIELDS) THEN profile
    ELSE hide_fields(IF SENSITIVE_FIELDS[n] \in DOMAIN profile
                     THEN [profile EXCEPT ![SENSITIVE_FIELDS[n]] = HIDDEN_VALUE]
                     ELSE profile,
                     n + 1)

\* what is returned, and the dict that was passed as it is after the call
filter_sensitive_fields(c, profile, target_employee_id) ==
    IF can_view_sensitive_fields(c, target_employee_id)
    THEN [returned |-> profile, data |-> profile]
    ELSE [returned |-> hide_fields(profile, 1), data |-> profile]

SensitiveNames == { SENSITIVE_FIELDS[n] : n \in 1..Len(SENSITIVE_FIELDS) }

SecretValues == { "s1", "s2" }

\* the sensitive columns of a profile row: none, some with any values, all
Secrets ==
    UNION { [K -> SecretValues] : K \in { {}, {"pan_number"}, {"pan_number", "personal_email"} } }
    \cup { [k \in SensitiveNames |-> v] : v \in SecretValues }

Profile(id, secrets) ==
    [ k \in {"id", "employee_name", "pf_number"} \cup DOMAIN secrets |->
        CASE k = "id" -> id
          [] k = "employee_name" -> "Asha"
          [] k = "pf_number" -> "pf"
          [] OTHER -> secrets[k] ]

SensitivePrincipals ==
    { UserContext(PhoneA, <<Membership(1, ROLE_COMPANY_ADMIN)>>),
      UserContext(PhoneB, <<>>),
      UserContext(PhoneB, <<Membership(1, ROLE_EMPLOYEE)>>),
      UserContext(PhoneB, <<Membership(2, ROLE_BRANCH_MANAGER), Membership(3, ROLE_EMPLOYEE)>>) }

\* two rows of the same employee with the same columns, which differ in the
\* values of the sensitive columns at most
InitSensitive ==
    /\ pc = "filter"
    /\ SUPER_ADMIN_PHONE = PhoneA
    /\ ctx \in SensitivePrincipals
    /\ \E id \in 1..MaxEmployeeId, s1 \in Secrets, s2 \in Secrets :
          /\ DOMAIN s1 = DOMAIN s2
          /\ args = [ target_employee_id |-> id,
                      data |-> << Profile(id, s1), Profile(id, s2) >> ]
          /\ data = << Profile(id, s1), Profile(id, s2) >>
    /\ filtered = NoValue
    /\ base_query = NoValue
    /\ table_alias = NoValue
    /\ company_filter = NoValue
    /\ query_to_run = NoValue
    /\ rows = NoValue
    /\ table_access = NoValue
    /\ result = NoValue
    /\ company_employee = NoValue
    /\ emp_id = 0
    /\ report = NoValue
    /\ att = NoValue /\ loc = NoValue /\ summary = NoValue /\ days = NoValue
    /\ slip_row = NoValue /\ slip = NoValue
    /\ prob = NoValue /\ probation = NoValue
    /\ creds = NoValue /\ store = NoValue
    /\ heap = NoValue /\ _sessions = NoValue /\ _lock = NoValue
    /\ now = NoValue /\ threads = NoValue

\* employee.py line 205, for each of the two rows
FilterSensitiveFields ==
    /\ pc = "filter"
    /\ pc' = "done"
    /\ filtered' = [ i \in 1..2 |->
                       filter_sensitive_fields(ctx, data[i], args.target_employee_id).returned ]
    /\ data' = [ i \in 1..2 |->
                   filter_sensitive_fields(ctx, data[i], args.target_employee_id).data ]
    /\ result' = "profile"
    /\ UNCHANGED <<SUPER_ADMIN_PHONE, ctx, base_query, table_alias, company_filter,
                   query_to_run, rows, table_access, args, company_employee, emp_id,
                   attVars, slipVars, probVars, authVars, sessVars>>

NextSensitive == FilterSensitiveFields

SpecSensitive == InitSensitive /\ [][NextSensitive]_vars

-----------------------------------------------------------------------------
(* The access predicate as the design states it                            *)

MembershipAccepts(m, r) ==
    CASE m.role_id = ROLE_COMPANY_ADMIN -> r.company_id = m.company_id
      [] m.role_id = ROLE_BRANCH_MANAGER ->
            r.company_id = m.company_id /\ r.company_branch_id = m.company_branch_id
      [] OTHER -> r.company_employee_id = m.company_employee_id

AccessPredicate(c, r) == \E i \in 1..Len(c.companies) : MembershipAccepts(c.companies[i], r)

IsInsertKeyword(tok) == Upper(tok.t) \in {"GROUP BY", "ORDER BY", "LIMIT", "HAVING"}

-----------------------------------------------------------------------------
(* Claims                                                                  *)

\* C1: a principal that is not super admin and has no membership gets zero
\* rows from the row source for every base query, trailing GROUP BY /
\* ORDER BY / LIMIT / HAVING included: never a failure, never unfiltered rows.
C1_NoMembershipZeroRows ==
    (pc = "done" /\ ~is_super_admin(ctx) /\ ctx.companies = <<>>)
        => (rows.ok /\ rows.sel = {})

\* C2: the filter built for a non-super-admin principal with memberships
\* holds for a row exactly when one of the memberships accepts the row
\* (Admin: the company; BranchManager: company and branch; Employee: the
\* employee record).
C2_FilterIsUnionOfMemberships ==
    (pc = "built")
        => LET res == EvalExpr(company_filter, {table_alias})
           IN  /\ res.ok
               /\ \A r \in Rows : r \in res.sel <=> AccessPredicate(ctx, r)

C2_Witness ==
    /\ pc = "built"
    /\ \E i, j \in 1..Len(ctx.companies) :
          /\ ctx.companies[i].role_id = ROLE_COMPANY_ADMIN
          /\ ctx.companies[j].role_id = ROLE_BRANCH_MANAGER
          /\ ctx.companies[i].company_id # ctx.companies[j].company_id

\* C3: for a non-super-admin principal (here: one with memberships) every
\* row the scoped query selects satisfies the original condition of the
\* base query and the access predicate, whatever the shape of the condition.
C3_ScopedRowsSatisfyBoth ==
    (pc = "done" /\ ~is_super_admin(ctx) /\ ctx.companies # <<>> /\ rows.ok)
        => \A r \in rows.sel :
              /\ r \in EvalQuery(base_query, {}).sel
              /\ AccessPredicate(ctx, r)

\* C4: for a non-super-admin principal with memberships the result is the
\* base query with AND <filter> inserted right before the earliest GROUP BY,
\* ORDER BY, LIMIT or HAVING (any letter case), or appended when there is
\* none; the words before and after are kept.
C4_InsertedBeforeFirstKeyword ==
    (pc \in {"fetch", "done"} /\ ~is_super_admin(ctx) /\ ctx.companies # <<>>)
        => \E k \in 1..(Len(base_query) + 1) :
              LET f == filter_clause(ctx.companies, table_alias)
              IN  /\ \A i \in 1..(k - 1) : ~IsInsertKeyword(base_query[i])
                  /\ k <= Len(base_query) => IsInsertKeyword(base_query[k])
                  /\ Len(query_to_run) = Len(base_query) + 1 + Len(f)
                  /\ SubSeq(query_to_run, 1, k - 1) = SubSeq(base_query, 1, k - 1)
                  /\ query_to_run[k] = Tok("AND")
                  /\ SubSeq(query_to_run, k + 1, k + Len(f)) = f
                  /\ SubSeq(query_to_run, k + Len(f) + 1, Len(query_to_run))
                        = SubSeq(base_query, k, Len(base_query))

C4_Witness ==
    /\ pc = "done"
    /\ ~is_super_admin(ctx)
    /\ ctx.companies # <<>>
    /\ \E i, j \in 1..Len(base_query) :
          /\ i < j
          /\ base_query[i].t = "GROUP BY"
          /\ base_query[j].t = "ORDER BY"
          /\ query_to_run[i].t = "AND"

\* C5: for a super admin, with or without memberships, the query is
\* returned unchanged for every base query and alias.
C5_SuperAdminUnchanged ==
    (pc \in {"fetch", "done"} /\ is_super_admin(ctx)) => query_to_run = base_query

C5_Witness ==
    /\ pc = "done"
    /\ is_super_admin(ctx)
    /\ ctx.companies # <<>>
    /\ \E i \in 1..Len(base_query) : IsInsertKeyword(base_query[i])

C6_FactsOnlyForAccessibleEmployee ==
    (pc = "done" /\ ~is_super_admin(ctx))
        => /\ emp_id # 0 =>
                \/ \E r \in TableRows(company_employee) :
                      r.company_employee_id = emp_id /\ AccessPredicate(ctx, r)
                \/ /\ primary_index(ctx) # 0
                   /\ emp_id = primary_company(ctx).company_employee_id
           /\ ctx.companies = <<>> => emp_id = 0
           /\ emp_id = 0 <=> result \notin {"attendance", "punches"}

\* a manager reads the attendance of another employee of the own company
C6_Witness ==
    /\ pc = "done"
    /\ ~is_super_admin(ctx)
    /\ args.employee_id # 0
    /\ emp_id = args.employee_id
    /\ result = "attendance"
    /\ ctx.companies # <<>>
    /\ primary_company(ctx).company_employee_id # emp_id

-----------------------------------------------------------------------------
(* The monthly classification as the design states it, from the fetched    *)
(* facts                                                                   *)

BeforeJoining(d) ==
    /\ att.date_of_joining # NoDate
    /\ DateLT(d, SubSeq(att.date_of_joining, 1, 3))

IsHoliday(d) == \E hr \in att.holiday_rows : hr.date[3] = d[3]

HasPunch(d) == \E i \in 1..Len(att.company_attendance) : att.company_attendance[i].date[3] = d[3]

OnLeave(d) ==
    \E lr \in att.leave_rows :
        /\ lr.start_date # NoDate
        /\ DateLE(SubSeq(lr.start_date, 1, 3), d)
        /\ DateLE(d, IF lr.end_date # NoDate THEN SubSeq(lr.end_date, 1, 3)
                                             ELSE SubSeq(lr.start_date, 1, 3))

WeekOff(d) == weekday(d[1], d[2], d[3]) \notin loc.working_days_set

FirstMatch(d) ==
    CASE BeforeJoining(d) -> "before_doj"
      [] ~BeforeJoining(d) /\ IsHoliday(d) -> "holiday"
      [] ~BeforeJoining(d) /\ ~IsHoliday(d) /\ WeekOff(d) -> "week_off"
      [] ~BeforeJoining(d) /\ ~IsHoliday(d) /\ ~WeekOff(d) /\ OnLeave(d) -> "leave"
      [] ~BeforeJoining(d) /\ ~IsHoliday(d) /\ ~WeekOff(d) /\ ~OnLeave(d) /\ HasPunch(d)
            -> "present"
      [] OTHER -> "absent"

DaysWithStatus(S) == { i \in 1..Len(days) : days[i].status \in S }

\* the last day the design says is classified
LastClassified ==
    IF att.year = att.today[1] /\ att.mon = att.today[2]
    THEN att.today[3] ELSE monthrange(att.year, att.mon)

\* C8: every classified day has the status of the first matching rule in the
\* order before_doj, holiday, week_off, leave, present, absent; the joining
\* day itself is not before_doj; a holiday with a punch is holiday, a leave
\* day with a punch is leave, and with the joining date on day 10 of the
\* month exactly the days 1-9 are before_doj.
C8_FirstMatchingRule ==
    pc \in {"loop", "done"} =>
        /\ \A i \in 1..Len(days) :
              /\ days[i].status = FirstMatch(days[i].date)
              /\ (IsHoliday(days[i].date) /\ HasPunch(days[i].date)
                    /\ ~BeforeJoining(days[i].date)) => days[i].status = "holiday"
              /\ (OnLeave(days[i].date) /\ HasPunch(days[i].date)
                    /\ days[i].status \notin {"before_doj", "holiday", "week_off"})
                    => days[i].status = "leave"
              /\ (att.date_of_joining # NoDate
                    /\ days[i].date = SubSeq(att.date_of_joining, 1, 3))
                    => days[i].status # "before_doj"
        /\ (pc = "done" /\ att.date_of_joining # NoDate
              /\ SubSeq(att.date_of_joining, 1, 3) = <<att.year, att.mon, 10>>)
              => DaysWithStatus({"before_doj"}) = (1..9) \cap (1..Len(days))

\* joined on day 10; a holiday with a punch and a leave day with a punch
\* were classified
C8_Witness ==
    /\ pc = "done"
    /\ att.date_of_joining # NoDate
    /\ SubSeq(att.date_of_joining, 1, 3) = <<att.year, att.mon, 10>>
    /\ DaysWithStatus({"before_doj"}) = 1..9
    /\ \E i \in DaysWithStatus({"holiday"}) : HasPunch(days[i].date)
    /\ \E i \in DaysWithStatus({"leave"}) : HasPunch(days[i].date)
    /\ DaysWithStatus({"absent"}) # {}

ExactlyDaysUpToLast ==
    /\ Len(days) <= LastClassified
    /\ \A i \in 1..Len(days) : days[i].date = <<att.year, att.mon, i>>
    /\ summary.total_days = LastClassified
    /\ summary.before_doj + summary.holiday + summary.week_off + summary.leave
          + summary.present + summary.absent = Len(days)
    /\ pc = "done" => Len(days) = LastClassified

\* C9 as stated: exactly the days 1..L are classified, L today's day of month
\* for the current month and the length of the month otherwise, and no day
\* after today receives a status or contributes to a summary count.
C9_NoDayAfterToday ==
    pc \in {"loop", "done"} =>
        /\ ExactlyDaysUpToLast
        /\ \A i \in 1..Len(days) : ~DateLT(att.today, days[i].date)

\* C9 as amended: exactly the days 1..L are classified, L today's day of
\* month for the current month and the length of the month otherwise, and no
\* day of the current month after today receives a status or contributes to
\* a summary count.
C9_ExactlyDaysUpToLast ==
    pc \in {"loop", "done"} =>
        /\ ExactlyDaysUpToLast
        /\ (att.year = att.today[1] /\ att.mon = att.today[2]) =>
              \A i \in 1..Len(days) : ~DateLT(att.today, days[i].date)

\* the current month, with a leave recorded on days after today
C9_Witness ==
    /\ pc = "done"
    /\ att.year = att.today[1] /\ att.mon = att.today[2]
    /\ att.today[3] < monthrange(att.year, att.mon)
    /\ Len(days) = att.today[3]
    /\ \E d \in loc.leave_days : d > att.today[3]

\* C10: summary.working_days is the number of days classified leave, present
\* or absent; days classified holiday, week_off or before_doj never count,
\* whatever the weekday configuration, punches and leaves on them.
C10_WorkingDaysCount ==
    pc \in {"loop", "done"} =>
        /\ summary.working_days = Cardinality(DaysWithStatus({"leave", "present", "absent"}))
        /\ summary.working_days + Cardinality(DaysWithStatus({"holiday", "week_off", "before_doj"}))
              = Len(days)

\* working days exist next to a holiday with a punch and a week-off with a
\* punch or a leave
C10_Witness ==
    /\ pc = "done"
    /\ summary.working_days > 0
    /\ \E i \in DaysWithStatus({"holiday"}) : HasPunch(days[i].date)
    /\ \E i \in DaysWithStatus({"week_off"}) :
          HasPunch(days[i].date) \/ OnLeave(days[i].date)

PunchRowsOn(d) == { i \in 1..Len(att.company_attendance) : att.company_attendance[i].date[3] = d }

\* C11 as stated: attendance_percentage is 0 when working_days is 0, equals
\* present / working_days * 100 otherwise, is 100 when present equals
\* working_days, and is never above 100 even with several punch rows on one
\* day (the percentage is held in tenths of a percent).
C11_PercentageExact ==
    pc = "done" =>
        /\ summary.working_days = 0 => summary.attendance_percentage = 0
        /\ summary.working_days > 0 =>
              summary.attendance_percentage * summary.working_days = summary.present * 1000
        /\ (summary.working_days > 0 /\ summary.present = summary.working_days)
              => summary.attendance_percentage = 1000
        /\ summary.attendance_percentage <= 1000

\* C11 as amended: attendance_percentage is 0 when working_days is 0, equals
\* present / working_days * 100 rounded to one decimal place otherwise, is
\* 100 when present equals working_days, and is never above 100 even with
\* several punch rows on one day.
C11_PercentageRounded ==
    pc = "done" =>
        /\ summary.working_days = 0 => summary.attendance_percentage = 0
        /\ summary.working_days > 0 =>
              LET diff == summary.attendance_percentage * summary.working_days
                            - summary.present * 1000
              IN  /\ 2 * diff <= summary.working_days
                  /\ 2 * diff >= 0 - summary.working_days
        /\ (summary.working_days > 0 /\ summary.present = summary.working_days)
              => summary.attendance_percentage = 1000
        /\ summary.attendance_percentage <= 1000
        /\ summary.present <= Len(days)

\* every working day is present, one of them with two punch rows
C11_Witness ==
    /\ pc = "done"
    /\ summary.working_days > 0
    /\ summary.present = summary.working_days
    /\ summary.attendance_percentage = 1000
    /\ \E i \in DaysWithStatus({"present"}) : Cardinality(PunchRowsOn(days[i].date[3])) > 1

-----------------------------------------------------------------------------
(* The deduction breakdown as the design states it, from the slip row      *)

SlipDone == pc = "done" /\ result = "salary_slip"

JoinedInPeriodMonth ==
    /\ slip_row.date_of_joining # NoDate
    /\ slip_row.from_date # NoDate
    /\ SubSeq(slip_row.date_of_joining, 1, 2) = SubSeq(slip_row.from_date, 1, 2)

\* the pay-period day count: the slip's day_in_month, else the length of
\* the month
PeriodDays ==
    IF slip_row.day_in_month # 0 THEN slip_row.day_in_month \div 10
    ELSE monthrange(args.month[1], args.month[2])

CalendarBasis == slip_row.salary_calculation_type \in {"", "month_total_day"}

\* C12: when the joining date falls inside the pay period's month, the absent
\* deduction and the total are computed from the absent-day count less the
\* pre-joining days (joining day of month minus 1).
C12_PreJoiningDaysNotCharged ==
    (SlipDone /\ JoinedInPeriodMonth) =>
        LET charged == Max(0, slip_row.absent - (slip_row.date_of_joining[3] - 1))
        IN  /\ slip.absent_deduction.amount = charged * slip.daily_rate
            /\ slip.total_attendance_deduction =
                  charged * slip.daily_rate + slip.half_day_deduction.amount
                     + slip.late_deduction.amount

\* C13 as stated: daily_rate is gross divided by the pay-period day count on
\* the calendar_days basis and by the working-day count otherwise, and 0
\* whenever that divisor is zero.
C13_DailyRateExact ==
    SlipDone =>
        LET divisor == IF CalendarBasis THEN PeriodDays ELSE slip_row.working_day_in_month
        IN  /\ divisor = 0 => slip.daily_rate = 0
            /\ divisor # 0 => slip.daily_rate * divisor = slip_row.total_allowance

\* C13 as amended: daily_rate is gross divided by the pay-period day count on
\* the calendar_days basis, and by the working-day count (the pay-period day
\* count when the slip has no working-day count) otherwise, rounded to two
\* decimal places; it is 0 whenever that divisor is zero.
C13_DailyRateRounded ==
    SlipDone =>
        LET divisor == IF CalendarBasis \/ slip_row.working_day_in_month = 0
                       THEN PeriodDays ELSE slip_row.working_day_in_month
            diff == slip.daily_rate * divisor - slip_row.total_allowance
        IN  /\ slip.daily_rate_basis = IF CalendarBasis THEN "calendar_days" ELSE "working_days"
            /\ divisor = 0 => slip.daily_rate = 0
            /\ divisor # 0 => (2 * diff <= divisor /\ 2 * diff >= 0 - divisor)

\* a rate on the working-day basis that the division does not give exactly
C13_Witness ==
    /\ SlipDone
    /\ ~CalendarBasis
    /\ slip_row.working_day_in_month > 0
    /\ slip.daily_rate > 0
    /\ slip.daily_rate * slip_row.working_day_in_month # slip_row.total_allowance

\* C14: the days deducted for lateness are floor(late_days / allowed_late)
\* when allowed_late > 0 and late_days >= allowed_late, else 0; with
\* allowed_late = 3, late days 0-2 give 0, 3-5 give 1, 6-8 give 2; the late
\* deduction is that number times daily_rate.
C14_LateThreshold ==
    SlipDone =>
        LET late == slip_row.late_day
            allowed == slip_row.allowed_late_day
            eff == slip.late_deduction.effective_absent
        IN  /\ (allowed > 0 /\ late >= allowed)
                  => (eff * allowed <= late /\ late < (eff + 1) * allowed)
            /\ ~(allowed > 0 /\ late >= allowed) => eff = 0
            /\ allowed = 3 =>
                  /\ late \in {0, 1, 2} => eff = 0
                  /\ late \in {3, 4, 5} => eff = 1
                  /\ late \in {6, 7, 8} => eff = 2
            /\ slip.late_deduction.amount = eff * slip.daily_rate

C14_Witness ==
    /\ SlipDone
    /\ slip_row.allowed_late_day = 3
    /\ slip_row.late_day = 8
    /\ slip.late_deduction.effective_absent = 2
    /\ slip.daily_rate > 0

\* C15 as stated: absent_deduction = absent_days * daily_rate,
\* half_day_deduction = half_days * 0.5 * daily_rate, and the total is the
\* sum of the three reported amounts.
C15_DeductionsExact ==
    SlipDone =>
        /\ slip.absent_deduction.amount = slip_row.absent * slip.daily_rate
        /\ 2 * slip.half_day_deduction.amount = slip_row.half_day * slip.daily_rate
        /\ slip.total_attendance_deduction =
              slip.absent_deduction.amount + slip.half_day_deduction.amount
                 + slip.late_deduction.amount

\* C15 as amended: absent_deduction = absent_days * daily_rate,
\* half_day_deduction = half_days * 0.5 * daily_rate rounded to two decimal
\* places, and the total is the sum of the three reported amounts.
C15_DeductionsRounded ==
    SlipDone =>
        LET diff == 2 * slip.half_day_deduction.amount - slip_row.half_day * slip.daily_rate
        IN  /\ slip.absent_deduction.amount = slip_row.absent * slip.daily_rate
            /\ diff \in {-1, 0, 1}
            /\ slip.total_attendance_deduction =
                  slip.absent_deduction.amount + slip.half_day_deduction.amount
                     + slip.late_deduction.amount

\* all three components are charged, the half day on an odd rate
C15_Witness ==
    /\ SlipDone
    /\ slip.absent_deduction.amount > 0
    /\ slip.half_day_deduction.amount > 0
    /\ slip.late_deduction.amount > 0
    /\ slip.daily_rate % 2 = 1

-----------------------------------------------------------------------------
(* The probation calculation as the design states it                       *)

MonthIndex(d) == d[1] * 12 + d[2] - 1

ValidDate(d) ==
    /\ d[2] \in 1..12
    /\ d[3] >= 1
    /\ d[3] <= monthrange(d[1], d[2])

\* C16: for every date d and month count n >= 0, _add_months(d, n) is the
\* date whose year and month are d's advanced by n calendar months, with
\* year carry, and whose day is min(d.day, last day of that month); Jan 31
\* plus one month is Feb 28, or Feb 29 in a leap year; the result is a valid
\* date.
C16_AddMonthsClamped ==
    (pc = "done" /\ result = "_add_months") =>
        /\ ValidDate(probation)
        /\ MonthIndex(probation) = MonthIndex(prob.doj_date) + prob.probation_months
        /\ \/ probation[3] = prob.doj_date[3]
           \/ /\ probation[3] = monthrange(probation[1], probation[2])
              /\ probation[3] < prob.doj_date[3]
        /\ (prob.doj_date = <<2023, 1, 31>> /\ prob.probation_months = 1)
              => probation = <<2023, 2, 28>>
        /\ (prob.doj_date = <<2024, 1, 31>> /\ prob.probation_months = 1)
              => probation = <<2024, 2, 29>>

\* the day is clamped and the year carries
C16_Witness ==
    /\ pc = "done"
    /\ result = "_add_months"
    /\ prob.doj_date = <<2025, 11, 30>>
    /\ prob.probation_months = 3
    /\ probation = <<2026, 2, 28>>

\* C17: no end date, not overdue and no days remaining when the month count
\* is 0 or negative or the joining date is missing; otherwise the end is
\* _add_months(doj, months), is_overdue holds exactly when end < today and
\* days_remaining is end - today, signed: is_overdue is days_remaining < 0,
\* and a probation ending today is not overdue with 0 days remaining.
C17_ProbationStatus ==
    (pc = "done" /\ result = "_calculate_probation_status") =>
        IF prob.doj_date = NoDate \/ prob.probation_months <= 0
        THEN /\ probation.probation_end = NoDate
             /\ ~probation.is_overdue
             /\ ~probation.has_days_remaining
        ELSE /\ ValidDate(probation.probation_end)
             /\ MonthIndex(probation.probation_end)
                   = MonthIndex(prob.doj_date) + prob.probation_months
             /\ probation.probation_end[3]
                   = Min(prob.doj_date[3],
                         monthrange(probation.probation_end[1], probation.probation_end[2]))
             /\ probation.is_overdue <=> DateLT(probation.probation_end, prob.today)
             /\ probation.has_days_remaining
             /\ probation.days_remaining
                   = toordinal(probation.probation_end) - toordinal(prob.today)
             /\ probation.is_overdue <=> probation.days_remaining < 0
             /\ probation.probation_end = prob.today
                   => (~probation.is_overdue /\ probation.days_remaining = 0)

\* a probation that ends today
C17_Witness ==
    /\ pc = "done"
    /\ result = "_calculate_probation_status"
    /\ prob.probation_months > 0
    /\ probation.probation_end = prob.today
    /\ ~probation.is_overdue
    /\ probation.days_remaining = 0

-----------------------------------------------------------------------------
(* The resolved principal as the design states it                          *)

ContextBuilt == pc \in {"scope", "fetch", "done"} /\ result = "UserContext"

PrimaryPositions == { i \in 1..Len(ctx.companies) : ctx.companies[i].is_primary }

\* C18: a principal built with a non-empty membership list has exactly one
\* membership marked primary, primary_company returns it, it has the highest
\* attendance count, and among equal counts it is the row seen first;
\* primary_company is None exactly when the list is empty.
C18_OnePrimaryHighestActivity ==
    ContextBuilt =>
        /\ primary_index(ctx) = 0 <=> ctx.companies = <<>>
        /\ ctx.companies # <<>> =>
              /\ Cardinality(PrimaryPositions) = 1
              /\ primary_index(ctx) \in PrimaryPositions
              /\ \A i \in 1..Len(store.rows) :
                    store.rows[i].attendance_count <= primary_company(ctx).attendance_count
              /\ primary_company(ctx).company_employee_id
                    = store.fetched[1].company_employee_id
              /\ \A i \in 1..Len(ctx.companies) :
                    ctx.companies[i].attendance_count = primary_company(ctx).attendance_count
                       => primary_index(ctx) <= i

\* the row inserted second has the most attendance and is primary
C18_Witness ==
    /\ ContextBuilt
    /\ Len(ctx.companies) >= 2
    /\ primary_company(ctx).company_employee_id = 2
    /\ store.rows[1].attendance_count < store.rows[2].attendance_count

\* C19: for a principal with an empty membership list an operation that
\* needs the primary company reports 'no company association' and does not
\* go on with a default company, employee id or role tier.
C19_NoDefaultForEmptyMembership ==
    (pc = "done" /\ ~is_super_admin(ctx) /\ ctx.companies = <<>>)
        => result \notin {"success", "Query failed"}

\* C20: when the membership fetch fails for an identified user, the
\* principal keeps the user id, name and phone and has an empty membership
\* list, and a query then scoped for a non-super-admin principal returns no
\* row.
C20_FetchFailureFailsClosed ==
    (ContextBuilt /\ store.fails /\ creds.user_id # 0) =>
        /\ ctx.user_id = creds.user_id
        /\ ctx.user_name = creds.user_name
        /\ ctx.phone = creds.phone
        /\ ctx.companies = <<>>
        /\ (pc = "done" /\ ~is_super_admin(ctx)) => (rows.ok => rows.sel = {})

Unparseable(date_raw) == date_raw # NoDate /\ strptime(date_raw) = ValueError

HasUnparseable ==
    \/ Unparseable(att.date_of_joining)
    \/ \E hr \in att.holiday_rows : Unparseable(hr.date)
    \/ \E i \in 1..Len(att.company_attendance) : Unparseable(att.company_attendance[i].date)
    \/ \E lr \in att.leave_rows : Unparseable(lr.start_date) \/ Unparseable(lr.end_date)

\* C21: whatever value that is not a date is fetched as the joining date, in
\* a holiday row, in a leave interval or in a punch row, get_attendance
\* completes: no exception leaves it, and the lookups it classifies from
\* hold the records that are dates and nothing of the malformed one.
C21_MalformedDateNeverAborts ==
    /\ pc # "raised"
    /\ (pc \in {"loop", "done"} /\ HasUnparseable) =>
          /\ loc.holidays =
                { hr.date[3] : hr \in { h \in att.holiday_rows : ~Unparseable(h.date) } }
          /\ DOMAIN loc.attendance_by_day =
                { att.company_attendance[i].date[3] :
                    i \in { j \in 1..Len(att.company_attendance) :
                              ~Unparseable(att.company_attendance[j].date) } }

Observed(t) ==
    /\ threads[t].op = "get_user_context_for_session"
    /\ threads[t].pc = "idle"
    /\ threads[t].seen.user_id # Unread

\* C23: under every interleaving of create_session, get_session,
\* update_session, delete_session and cleanup_expired by several threads, no
\* thread observes a session with some but not all of the fields of one
\* update_session call applied, also when it reads through a reference that
\* get_session returned earlier: what it reads is the session before the
\* update (not authenticated, no user id) or after it (authenticated, with
\* the user id).
C23_NoPartialUpdateObserved ==
    \A t \in Threads :
        Observed(t) =>
            (threads[t].seen.is_authenticated <=> threads[t].seen.user_id # 0)

\* C24 as stated: get_session never returns a session idle for longer than
\* the timeout: it deletes such an entry from the map and returns None; for
\* an entry that is present and not expired it returns the session with
\* last_activity set to now; and an expired entry leaves the map in no other
\* step than that read or a cleanup_expired call.
C24_LazyExpiryOnlyCleanup ==
    [][ /\ \A t \in Threads, sid \in SessionIds :
              get_session_by(t, sid) =>
                 /\ threads'[t].ref \in {0, sid}
                 /\ (sid \in _sessions /\ now - heap[sid].last_activity > _session_timeout)
                       => (threads'[t].ref = 0 /\ sid \notin _sessions')
                 /\ (sid \in _sessions /\ now - heap[sid].last_activity <= _session_timeout)
                       => /\ threads'[t].ref = sid
                          /\ sid \in _sessions'
                          /\ heap'[sid].last_activity = now
                 /\ threads'[t].ref # 0 =>
                       now' - heap'[threads'[t].ref].last_activity <= _session_timeout
        /\ \A sid \in SessionIds :
              (/\ sid \in _sessions
               /\ now - heap[sid].last_activity > _session_timeout
               /\ sid \notin _sessions')
                 => \/ \E t \in Threads : get_session_by(t, sid)
                    \/ \E t \in Threads : cleanup_expired_by(t) ]_vars

\* C24 as amended: the same, and an expired entry leaves the map in no other
\* step than that read, a cleanup_expired call or a delete_session call for
\* its id.
C24_LazyExpiry ==
    [][ /\ \A t \in Threads, sid \in SessionIds :
              get_session_by(t, sid) =>
                 /\ threads'[t].ref \in {0, sid}
                 /\ (sid \in _sessions /\ now - heap[sid].last_activity > _session_timeout)
                       => (threads'[t].ref = 0 /\ sid \notin _sessions')
                 /\ (sid \in _sessions /\ now - heap[sid].last_activity <= _session_timeout)
                       => /\ threads'[t].ref = sid
                          /\ sid \in _sessions'
                          /\ heap'[sid].last_activity = now
                 /\ threads'[t].ref # 0 =>
                       now' - heap'[threads'[t].ref].last_activity <= _session_timeout
        /\ \A sid \in SessionIds :
              (/\ sid \in _sessions
               /\ now - heap[sid].last_activity > _session_timeout
               /\ sid \notin _sessions')
                 => \/ \E t \in Threads : get_session_by(t, sid)
                    \/ \E t \in Threads : cleanup_expired_by(t)
                    \/ \E t \in Threads : delete_session_by(t, sid) ]_vars

\* a get_session of an entry idle for longer than the timeout returned None
\* and the entry has left the map
C24_Witness ==
    \E t \in Threads, sid \in SessionIds :
        /\ threads[t].op = "get_session"
        /\ threads[t].ref = 0
        /\ heap[sid].created
        /\ sid \notin _sessions
        /\ now - heap[sid].last_activity > _session_timeout

\* get_session(sid) would return the session
Retrievable(sid, map, objects, time) ==
    sid \in map /\ ~(time - objects[sid].last_activity > _session_timeout)

\* C29: once a session has been idle for longer than the timeout, no later
\* get_session, update_session, get_active_count or cleanup_expired on its
\* id makes it retrievable through get_session again: from a state in which
\* it is expired no step leads to a state in which get_session returns it.
C29_ExpiryIsPermanent ==
    [][ \A sid \in SessionIds :
           (heap[sid].created /\ now - heap[sid].last_activity > _session_timeout)
              => ~Retrievable(sid, _sessions', heap', now') ]_vars

\* the weekday a piece of a configuration text names, whatever its case and
\* the blanks around it
NamedWeekdays ==
    { <<"mon", 0>>, <<"tue", 1>>, <<"wed", 2>>, <<"thu", 3>>, <<"fri", 4>>,
      <<"sat", 5>>, <<" Sat", 5>>, <<"sun", 6>>, <<"SUN", 6>> }

RecognisedDays(config) ==
    { nw[2] : nw \in { x \in NamedWeekdays : \E i \in 1..Len(config) : config[i] = x[1] } }

ChosenConfig ==
    IF att.emp_working_day # <<>> THEN att.emp_working_day ELSE att.branch_working_day

\* C25: the working-day set of get_attendance comes from the employee-level
\* configuration when that is set and from the branch-level one otherwise;
\* it is Mon-Fri when the chosen configuration is unset or names no
\* weekday, and it is always a non-empty subset of 0..6.
C25_EffectiveWorkingDays ==
    pc \in {"loop", "done"} =>
        /\ loc.working_days_set =
              IF RecognisedDays(ChosenConfig) # {} THEN RecognisedDays(ChosenConfig)
                                                   ELSE {0, 1, 2, 3, 4}
        /\ loc.working_days_set # {}
        /\ loc.working_days_set \subseteq 0..6

\* the employee-level text names no weekday while the branch-level one
\* does: the set is Mon-Fri and a Sunday was classified week_off
C25_Witness ==
    /\ pc = "done"
    /\ att.emp_working_day = <<"xyz">>
    /\ RecognisedDays(att.branch_working_day) = {3, 6}
    /\ loc.working_days_set = {0, 1, 2, 3, 4}
    /\ \E i \in 1..Len(days) : days[i].day = 6 /\ days[i].status = "week_off"

\* the days on which some punch carries the flag
FlaggedDays(flag) ==
    { att.company_attendance[i].date[3] :
        i \in { j \in 1..Len(att.company_attendance) :
                  att.company_attendance[j][flag] = 1 } }

PresentDays == { days[i].date[3] : i \in DaysWithStatus({"present"}) }

\* C26: summary.late and summary.half_day are the numbers of days classified
\* present on which at least one punch carries the late, respectively the
\* half-day flag; a flagged punch on a holiday, week_off, leave or
\* before_doj day adds nothing, so both are at most summary.present.
C26_LateAndHalfDayOfPresentDays ==
    pc \in {"loop", "done"} =>
        /\ summary.late = Cardinality(PresentDays \cap FlaggedDays("is_late"))
        /\ summary.half_day = Cardinality(PresentDays \cap FlaggedDays("is_half_day"))
        /\ summary.late <= summary.present
        /\ summary.half_day <= summary.present

\* a present day counted late while a holiday with a late punch was not,
\* the late punch one of two on its day
C26_Witness ==
    /\ pc = "done"
    /\ summary.late = 1
    /\ \E i \in DaysWithStatus({"holiday"}) :
          /\ days[i].date[3] \in FlaggedDays("is_late")
          /\ Cardinality(PunchRowsOn(days[i].date[3])) = 2
    /\ Cardinality(FlaggedDays("is_late")) = 2

DayStatus == { "before_doj", "holiday", "week_off", "leave", "present", "absent" }

\* C28: in a get_attendance result every classified day has exactly one of
\* the six statuses, every summary count is the number of days with its
\* status, and before_doj + holiday + week_off + leave + present + absent is
\* total_days, the number of classified days.
C28_StatusCountsPartitionDays ==
    pc = "done" =>
        /\ \A i \in 1..Len(days) : days[i].status \in DayStatus
        /\ \A st \in DayStatus : summary[st] = Cardinality(DaysWithStatus({st}))
        /\ summary.total_days = Len(days)
        /\ summary.before_doj + summary.holiday + summary.week_off + summary.leave
              + summary.present + summary.absent = summary.total_days

\* a month in which every one of the six statuses occurs
C28_Witness ==
    /\ pc = "done"
    /\ \A st \in DayStatus : summary[st] > 0
    /\ summary.total_days = 30

\* C27: for a principal that is neither super-admin nor the owner of the
\* target employee record, what filter_sensitive_fields returns does not
\* depend on the values of the sensitive fields: two records that differ
\* only in them give the same output, every sensitive field that is present
\* holds the hidden marker, every other field its value, and the record
\* that was passed is left as it was.
C27_SensitiveValuesDoNotFlow ==
    (/\ pc = "done"
     /\ ~is_super_admin(ctx)
     /\ args.target_employee_id \notin get_all_company_employee_ids(ctx)) =>
        /\ filtered[1] = filtered[2]
        /\ \A i \in 1..2 :
              /\ DOMAIN filtered[i] = DOMAIN args.data[i]
              /\ \A k \in DOMAIN filtered[i] :
                    filtered[i][k] = IF k \in SensitiveNames THEN "***HIDDEN***"
                                                              ELSE args.data[i][k]
        /\ data = args.data

\* a manager who does not own the record was given two rows with different
\* sensitive values
C27_Witness ==
    /\ pc = "done"
    /\ ~is_super_admin(ctx)
    /\ \E i \in 1..Len(ctx.companies) : ctx.companies[i].role_id = ROLE_BRANCH_MANAGER
    /\ args.target_employee_id \notin get_all_company_employee_ids(ctx)
    /\ args.data[1]["pan_number"] # args.data[2]["pan_number"]
    /\ filtered[1] = filtered[2]
    /\ filtered[1]["pan_number"] = "***HIDDEN***"

\* C30: for the same employee, month and facts, the absent_days that
\* get_attendance_report computes (expected working days minus present days
\* minus leave days, floored at 0) equals the summary.absent count that
\* get_attendance derives day by day, and its expected_days equals
\* get_attendance's working_days.
C30_ReportAgreesWithAttendance ==
    pc = "reported" =>
        /\ report.absent_days = summary.absent
        /\ report.expected_days = summary.working_days

====
